---- MODULE Spec2Model ----
(***************************************************************************)
(* Lifecycle of the static file server (src/main.go): App.StartServer,     *)
(* App.StopServer, the accept-loop goroutine spawned by StartServer and    *)
(* the in-memory log buffer.                                               *)
(*                                                                         *)
(* Strings whose content the code inspects (the port, the IP address, the  *)
(* listen address) are tuples of one-character strings, so that parsing    *)
(* and formatting are computed, not assumed.                               *)
(***************************************************************************)
EXTENDS Integers, Sequences, FiniteSets, TLC

(***************************************************************************)
(* Bounds of the model.                                                    *)
(***************************************************************************)
\* StartServer calls per behaviour (each creates one http.Server instance).
MaxStarts == 2
\* Longest generated port string (over PortAlphabet).
MaxPortLen == 2
\* addLog calls of each appender, and ClearLogs calls, per behaviour of
\* SpecLog.
MaxAppends == 3
MaxClears == 1
\* HTTP requests handled per behaviour of SpecHttp.
MaxRequests == 2
\* Longest generated URL path (of GetPaths) and entry name.
MaxUrlLen == 3
MaxNameLen == 2

(***************************************************************************)
(* Program constants.                                                      *)
(***************************************************************************)
MinPort == 1
MaxPort == 65535
MaxLogs == 100
NumStartupLogs == 7

NoOne == "none"
NoServer == 0

Callers == {"c1", "c2"}
\* One more instance than a behaviour of Spec creates: SpecRestart starts
\* after a first Start/Stop cycle.
Servers == 1..(MaxStarts + 1)

(***************************************************************************)
(* strconv.Atoi, as called on the port string.                             *)
(***************************************************************************)
Digits == {"0", "1", "2", "3", "4", "5", "6", "7", "8", "9"}

DigitVal(c) ==
    CASE c = "0" -> 0 [] c = "1" -> 1 [] c = "2" -> 2 [] c = "3" -> 3
      [] c = "4" -> 4 [] c = "5" -> 5 [] c = "6" -> 6 [] c = "7" -> 7
      [] c = "8" -> 8 [] c = "9" -> 9

Min(a, b) == IF a < b THEN a ELSE b

\* Values above MaxPort are only ever compared with MaxPort: they are kept
\* as MaxPort + 1, the int64 range test being done on the digits (TooBig).
Saturated == MaxPort + 1

RECURSIVE DigitsValue(_, _)
DigitsValue(s, acc) ==
    IF s = <<>> THEN acc
    ELSE DigitsValue(Tail(s), Min(acc * 10 + DigitVal(Head(s)), Saturated))

RECURSIVE StripZeros(_)
StripZeros(s) ==
    IF s # <<>> /\ Head(s) = "0" THEN StripZeros(Tail(s)) ELSE s

\* Lexicographic s > t for digit strings of equal length.
RECURSIVE DigitsGreater(_, _)
DigitsGreater(s, t) ==
    IF s = <<>> THEN FALSE
    ELSE IF DigitVal(Head(s)) # DigitVal(Head(t))
         THEN DigitVal(Head(s)) > DigitVal(Head(t))
         ELSE DigitsGreater(Tail(s), Tail(t))

\* 2^63 - 1 and 2^63, the limits of int.
MaxInt64Digits ==
    <<"9","2","2","3","3","7","2","0","3","6","8","5","4","7","7","5","8","0","7">>
MinInt64Digits ==
    <<"9","2","2","3","3","7","2","0","3","6","8","5","4","7","7","5","8","0","8">>

\* The magnitude does not fit an int: Atoi reports a range error.
TooBig(digits, neg) ==
    LET d == StripZeros(digits)
        lim == IF neg THEN MinInt64Digits ELSE MaxInt64Digits
    IN  \/ Len(d) > Len(lim)
        \/ Len(d) = Len(lim) /\ DigitsGreater(d, lim)

\* strconv.Atoi(s): [ok |-> err == nil, val |-> the int].
Atoi(s) ==
    IF s = <<>> THEN [ok |-> FALSE, val |-> 0]
    ELSE LET signed == Head(s) \in {"+", "-"}
             neg == Head(s) = "-"
             body == IF signed THEN Tail(s) ELSE s
         IN  IF body = <<>> \/ \E i \in 1..Len(body) : body[i] \notin Digits
             THEN [ok |-> FALSE, val |-> 0]
             ELSE IF TooBig(body, neg)
             THEN [ok |-> FALSE, val |-> IF neg THEN 0 - Saturated ELSE Saturated]
             ELSE [ok |-> TRUE,
                   val |-> IF neg THEN 0 - DigitsValue(body, 0)
                           ELSE DigitsValue(body, 0)]

\* fmt.Sprintf("%d", n) for n >= 0.
DigitChar(d) ==
    CASE d = 0 -> "0" [] d = 1 -> "1" [] d = 2 -> "2" [] d = 3 -> "3"
      [] d = 4 -> "4" [] d = 5 -> "5" [] d = 6 -> "6" [] d = 7 -> "7"
      [] d = 8 -> "8" [] d = 9 -> "9"

RECURSIVE Itoa(_)
Itoa(n) ==
    IF n < 10 THEN <<DigitChar(n)>>
    ELSE Append(Itoa(n \div 10), DigitChar(n % 10))

(***************************************************************************)
(* net.ParseIP, as called on the address string (nil result = FALSE).      *)
(***************************************************************************)
HexDigits == Digits \cup {"a", "b", "c", "d", "e", "f", "A", "B", "C", "D", "E", "F"}

Contains(s, c) == \E i \in 1..Len(s) : s[i] = c

\* Index of the first element of s that is in cs, 0 when there is none.
FirstOf(s, cs) ==
    IF \E i \in 1..Len(s) : s[i] \in cs
    THEN CHOOSE i \in 1..Len(s) : s[i] \in cs /\ \A j \in 1..(i - 1) : s[j] \notin cs
    ELSE 0

\* Index of the last c in s, 0 when there is none.
LastIndex(s, c) ==
    IF Contains(s, c)
    THEN CHOOSE i \in 1..Len(s) : s[i] = c /\ \A j \in (i + 1)..Len(s) : s[j] # c
    ELSE 0

Drop(s, n) == SubSeq(s, n + 1, Len(s))

\* One dotted field: decimal digits, no leading zero, at most 255.
IPv4FieldOK(f) ==
    /\ f # <<>>
    /\ \A i \in 1..Len(f) : f[i] \in Digits
    /\ Len(f) > 1 => Head(f) # "0"
    /\ Len(f) <= 3
    /\ DigitsValue(f, 0) <= 255

\* parseIPv4: exactly four fields separated by dots.
RECURSIVE ParseIPv4Fields(_, _)
ParseIPv4Fields(s, pos) ==
    LET dot == FirstOf(s, {"."})
    IN  IF dot = 0 THEN pos = 3 /\ IPv4FieldOK(s)
        ELSE /\ pos < 3
             /\ IPv4FieldOK(SubSeq(s, 1, dot - 1))
             /\ ParseIPv4Fields(Drop(s, dot), pos + 1)

ParseIPv4(s) == ParseIPv4Fields(s, 0)

\* Length of the leading run of hex digits of s.
HexRun(s) ==
    LET stop == CHOOSE i \in 1..(Len(s) + 1) :
                    /\ i = Len(s) + 1 \/ s[i] \notin HexDigits
                    /\ \A j \in 1..(i - 1) : s[j] \in HexDigits
    IN  stop - 1

\* End of parseIPv6: the whole string used, the ellipsis expands to >= 1 field.
ParseIPv6Finish(s, i, ellipsis) ==
    /\ s = <<>>
    /\ IF i < 16 THEN ellipsis >= 0 ELSE ellipsis < 0

\* The group loop of parseIPv6: i bytes filled so far, ellipsis = -1 or the
\* byte offset of "::".
RECURSIVE ParseIPv6Loop(_, _, _)
ParseIPv6Loop(s, i, ellipsis) ==
    IF i >= 16 THEN ParseIPv6Finish(s, i, ellipsis)
    ELSE LET off == HexRun(s)
             rest == Drop(s, off)
         IN  IF off = 0 \/ off > 4 THEN FALSE
             ELSE IF rest # <<>> /\ Head(rest) = "."
             THEN /\ ellipsis >= 0 \/ i = 12
                  /\ i + 4 <= 16
                  /\ ParseIPv4(s)
                  /\ ParseIPv6Finish(<<>>, i + 4, ellipsis)
             ELSE IF rest = <<>> THEN ParseIPv6Finish(rest, i + 2, ellipsis)
             ELSE IF Head(rest) # ":" \/ Len(rest) = 1 THEN FALSE
             ELSE LET after == Tail(rest)
                  IN  IF Head(after) = ":"
                      THEN IF ellipsis >= 0 THEN FALSE
                           ELSE IF Tail(after) = <<>>
                                THEN ParseIPv6Finish(<<>>, i + 2, i + 2)
                                ELSE ParseIPv6Loop(Tail(after), i + 2, i + 2)
                      ELSE ParseIPv6Loop(after, i + 2, ellipsis)

ParseIPv6(s) ==
    IF Contains(s, "%") THEN FALSE
    ELSE IF Len(s) >= 2 /\ s[1] = ":" /\ s[2] = ":"
         THEN IF Len(s) = 2 THEN TRUE ELSE ParseIPv6Loop(Drop(s, 2), 0, 0)
         ELSE ParseIPv6Loop(s, 0, 0 - 1)

\* net.ParseIP(s) # nil: the first of '.', ':' or '%' decides the family.
ParseIP(s) ==
    LET k == FirstOf(s, {".", ":", "%"})
    IN  IF k = 0 THEN FALSE
        ELSE IF s[k] = "." THEN ParseIPv4(s)
        ELSE IF s[k] = ":" THEN ParseIPv6(s)
        ELSE FALSE

(***************************************************************************)
(* The listen address: fmt.Sprintf("%s:%d", ip, portNum), and what         *)
(* net.Listen("tcp", addr) makes of it (net.SplitHostPort).                *)
(***************************************************************************)
FormatAddr(ip, portNum) == ip \o <<":">> \o Itoa(portNum)

\* [ok, host, port]: the split fails on a host with a colon outside brackets.
SplitHostPort(addr) ==
    LET i == LastIndex(addr, ":")
        host == SubSeq(addr, 1, i - 1)
    IN  IF i = 0 THEN [ok |-> FALSE, host |-> <<>>, port |-> <<>>]
        ELSE IF Contains(host, ":") \/ Contains(host, "[") \/ Contains(host, "]")
        THEN [ok |-> FALSE, host |-> <<>>, port |-> <<>>]
        ELSE [ok |-> TRUE, host |-> host, port |-> Drop(addr, i)]

\* net.Listen accepts the address: host:port splits, the host is an IPv4
\* literal (or empty) and the port a number in range.
ListenAddrOK(addr) ==
    LET hp == SplitHostPort(addr)
    IN  /\ hp.ok
        /\ hp.host = <<>> \/ ParseIPv4(hp.host)
        /\ Atoi(hp.port).ok
        /\ Atoi(hp.port).val >= 0 /\ Atoi(hp.port).val <= MaxPort

(***************************************************************************)
(* The directory argument.  A path is [abs, parts]; filepath.Abs joins a   *)
(* relative path to the working directory, os.Stat looks the result up.    *)
(***************************************************************************)
EmptyPath == [abs |-> FALSE, parts |-> <<>>]

Cwd == <<"srv">>

\* filepath.Abs(dir): [ok, path]; a relative path needs os.Getwd to succeed.
Abs(dir, cwdOK) ==
    IF dir.abs THEN [ok |-> TRUE, path |-> dir.parts]
    ELSE IF cwdOK THEN [ok |-> TRUE, path |-> Cwd \o dir.parts]
    ELSE [ok |-> FALSE, path |-> <<>>]

\* os.Stat(absDir): what is at the path: "dir", "file", or the error.
Stat(path) ==
    CASE path \in {<<"tmp", "site">>, <<"srv", "site">>, <<"tmp">>, <<"srv">>} -> "dir"
      [] path = <<"tmp", "site", "index.html">> -> "file"
      [] path = <<"root", "secret">> -> "EACCES"
      [] OTHER -> "ENOENT"

\* ValidateStart with the upper port limit off by one.
ValidateStartWidePort(dir, ip, port, cwdOK) ==
    IF dir = EmptyPath THEN "EmptyDirectory"
    ELSE IF ~Abs(dir, cwdOK).ok THEN "AbsFailed"
    ELSE IF Stat(Abs(dir, cwdOK).path) \notin {"dir", "file"} THEN "StatFailed"
    ELSE IF Stat(Abs(dir, cwdOK).path) # "dir" THEN "NotADirectory"
    ELSE IF ip = <<>> THEN "EmptyAddress"
    ELSE IF ~ParseIP(ip) THEN "InvalidIP"
    ELSE IF port = <<>> THEN "EmptyPort"
    ELSE IF ~Atoi(port).ok THEN "PortNotNumber"
    ELSE IF Atoi(port).val < MinPort \/ Atoi(port).val > MaxPort + 1
         THEN "PortOutOfRange"
    ELSE "OK"

\* ValidateStart with the address checked before the directory.
ValidateStartAddressFirst(dir, ip, port, cwdOK) ==
    IF ip = <<>> THEN "EmptyAddress"
    ELSE IF ~ParseIP(ip) THEN "InvalidIP"
    ELSE IF dir = EmptyPath THEN "EmptyDirectory"
    ELSE IF ~Abs(dir, cwdOK).ok THEN "AbsFailed"
    ELSE IF Stat(Abs(dir, cwdOK).path) \notin {"dir", "file"} THEN "StatFailed"
    ELSE IF Stat(Abs(dir, cwdOK).path) # "dir" THEN "NotADirectory"
    ELSE IF port = <<>> THEN "EmptyPort"
    ELSE IF ~Atoi(port).ok THEN "PortNotNumber"
    ELSE IF Atoi(port).val < MinPort \/ Atoi(port).val > MaxPort THEN "PortOutOfRange"
    ELSE "OK"

(***************************************************************************)
(* App.StartServer, lines 707-765: the argument checks, in code order.     *)
(* The result names the message returned, "OK" when every check passes.    *)
(***************************************************************************)
ValidateStart(dir, ip, port, cwdOK) ==
    IF dir = EmptyPath THEN "EmptyDirectory"
    ELSE IF ~Abs(dir, cwdOK).ok THEN "AbsFailed"
    ELSE IF Stat(Abs(dir, cwdOK).path) \notin {"dir", "file"} THEN "StatFailed"
    ELSE IF Stat(Abs(dir, cwdOK).path) # "dir" THEN "NotADirectory"
    ELSE IF ip = <<>> THEN "EmptyAddress"
    ELSE IF ~ParseIP(ip) THEN "InvalidIP"
    ELSE IF port = <<>> THEN "EmptyPort"
    ELSE IF ~Atoi(port).ok THEN "PortNotNumber"
    ELSE IF Atoi(port).val < MinPort \/ Atoi(port).val > MaxPort THEN "PortOutOfRange"
    ELSE "OK"

\* The error taxonomy of the design document, by returned message.
ErrClass(code) ==
    CASE code \in {"AbsFailed", "StatFailed"} -> "DirectoryNotFound"
      [] code \in {"EmptyAddress", "InvalidIP"} -> "InvalidAddress"
      [] code \in {"EmptyPort", "PortNotNumber", "PortOutOfRange"} -> "InvalidPort"
      [] code = "PortUnavailable" -> "BindError"
      [] OTHER -> code

\* addLog with the cap applied from the wrong end: the first entries stay.
addLogKeepOldest(buf, message) ==
    LET a == Append(buf, message)
    IN  IF Len(a) > MaxLogs THEN SubSeq(a, 1, MaxLogs) ELSE a

(***************************************************************************)
(* App.addLog: append, keep the last MaxLogs entries.                      *)
(***************************************************************************)
addLog(buf, message) ==
    LET a == Append(buf, message)
    IN  IF Len(a) > MaxLogs THEN SubSeq(a, Len(a) - MaxLogs + 1, Len(a)) ELSE a

\* The seven messages the goroutine logs before it listens.
StartupLog(i) ==
    CASE i = 1 -> "starting" [] i = 2 -> "dir" [] i = 3 -> "listen"
      [] i = 4 -> "url" [] i = 5 -> "api_get" [] i = 6 -> "api_getjson"
      [] OTHER -> "separator"

(***************************************************************************)
(* Inputs.                                                                 *)
(***************************************************************************)
SeqsUpTo(A, n) == UNION {[1..k -> A] : k \in 0..n}

SiteDir == [abs |-> TRUE, parts |-> <<"tmp", "site">>]

DirInputs ==
    {EmptyPath, SiteDir,
     [abs |-> FALSE, parts |-> <<"site">>],
     [abs |-> TRUE, parts |-> <<"tmp", "site", "index.html">>],
     [abs |-> TRUE, parts |-> <<"nope">>],
     [abs |-> TRUE, parts |-> <<"root", "secret">>]}

Loopback == <<"1","2","7",".","0",".","0",".","1">>
AnyAddr == <<"0",".","0",".","0",".","0">>
LoopbackV6 == <<":",":","1">>

IpInputs ==
    {<<>>, Loopback, AnyAddr, LoopbackV6,
     <<"1","0",".","0",".","0",".","2","5","5">>,
     <<"2","5","6",".","0",".","0",".","1">>,
     <<"1",".","2",".","3">>,
     <<"1",".","2",".","3",".","4",".","5">>,
     <<"0","1",".","2",".","3",".","4">>,
     <<"1",".",".","3",".","4">>,
     <<"l","o","c","a","l","h","o","s","t">>,
     <<" ","1",".","2",".","3",".","4">>,
     <<"1",".","2",".","3",".","4",":","8","0">>,
     <<":",":">>,
     <<"f","e","8","0",":",":","1">>,
     <<"1",":","2",":","3",":","4",":","5",":","6",":","7",":","8">>,
     <<"1",":","2",":","3",":","4",":","5",":","6",":","7">>,
     <<"1",":",":","2",":",":","3">>,
     <<"1","2","3","4","5",":",":">>,
     <<":","1">>,
     <<":",":","f","f","f","f",":","1",".","2",".","3",".","4">>,
     <<"f","e","8","0",":",":","1","%","e","t","h","0">>}

PortAlphabet == {"0", "1", "9", "-", "+", "a"}

Port8085 == <<"8","0","8","5">>
Port80 == <<"8","0">>

PortInputs ==
    SeqsUpTo(PortAlphabet, MaxPortLen) \cup
    {Port8085, Port80,
     <<"6","5","5","3","5">>, <<"6","5","5","3","6">>,
     <<"0","0","8","0">>, <<"+","8","0">>, <<"-","8","0">>,
     <<"8","0","8","0","a">>, <<" ","8","0">>, <<"8","0",".","0">>,
     <<"1","0","0","0","0","0","0">>,
     MaxInt64Digits, MinInt64Digits,
     <<"1","0","0","0","0","0","0","0","0","0","0","0","0","0","0","0","0","0","0","0">>}

\* Every argument triple, for the checks of single calls.
AllArgs == [dir : DirInputs, ip : IpInputs, port : PortInputs]

\* The triples the lifecycle runs use: one that can start, one that fails
\* validation.
LifecycleArgs ==
    {[dir |-> SiteDir, ip |-> Loopback, port |-> Port8085],
     [dir |-> SiteDir, ip |-> Loopback, port |-> <<"0">>]}

\* Two startable triples on different ports.
RestartArgs ==
    {[dir |-> SiteDir, ip |-> Loopback, port |-> Port8085],
     [dir |-> SiteDir, ip |-> Loopback, port |-> Port80]}

NoArgs == [dir |-> EmptyPath, ip |-> <<>>, port |-> <<>>]
NoResult ==
    [op |-> "none", success |-> FALSE, code |-> "none", addr |-> <<>>, url |-> <<>>,
     args |-> NoArgs]

(***************************************************************************)
(* State.                                                                  *)
(***************************************************************************)
VARIABLES
    isRunning,      \* App.isRunning
    server,         \* App.server: NoServer (nil) or the id of an http.Server
    mu,             \* App.mu: NoOne or the thread that holds it
    logMu,          \* App.logMu: NoOne or the caller that holds it
    logs,           \* App.logs
    numSrv,         \* http.Server instances created so far
    srvAddr,        \* http.Server.Addr of each instance
    srvClosed,      \* instances on which Close was called
    listening,      \* instances that have an open listener socket
    probe,          \* the caller whose StartServer holds the probe socket
    pc,             \* where each control-plane caller is
    args,           \* the arguments of the caller's StartServer call
    result,         \* what the most recent control-plane call returned, and
                    \* the arguments it was called with
    gpc,            \* where the goroutine spawned for each instance is
    gsrv,           \* the instance the goroutine is serving
    okSinceIdle,    \* StartServer successes since isRunning was last reset
    failedNoStart,  \* an accept loop failed and no StartServer succeeded since
    startsLeft,     \* StartServer calls that may still create a server
    appended,       \* every message passed to addLog since the last ClearLogs
    appends,        \* addLog calls each appender of SpecLog has made
    clearsLeft,     \* ClearLogs calls that may still be made
    windows,        \* the build target: path/filepath of Windows or of Unix
    fs,             \* the filesystem: path -> [dir, data]
    req,            \* the HTTP request handled last
    resp,           \* the response to it
    touched,        \* the filesystem paths its handler accessed, and how
    reqsLeft,       \* HTTP requests that may still arrive
    openFiles,      \* files the handlers opened and did not close
    size,           \* an int64 passed to formatSize
    sizeText,       \* what formatSize made of it
    inflight,       \* the request handlers that are running, by goroutine
    late,           \* what handlers did while a.isRunning was false
    snapshot,       \* the slice the latest GetLogs call returned
    saveLogs,       \* a.saveLogs
    logFile         \* the lines of log/log.txt, in the order written

vars == <<isRunning, server, mu, logMu, logs, numSrv, srvAddr, srvClosed,
          listening, probe, pc, args, result, gpc, gsrv, okSinceIdle, failedNoStart,
          startsLeft, appended, appends, clearsLeft, windows, fs, req, resp,
          touched, reqsLeft, openFiles, size, sizeText, inflight,
          late, snapshot, saveLogs, logFile>>

appVars == <<isRunning, server, logs, appended>>
httpVars == <<windows, fs, req, resp, touched, reqsLeft, openFiles, size, sizeText,
              inflight, late>>
\* What StartServer, StopServer and the accept-loop goroutine never touch.
persistVars == <<saveLogs, logFile>>
sideVars == <<appends, clearsLeft, httpVars, snapshot, persistVars>>
netVars == <<numSrv, srvAddr, srvClosed, listening, probe>>
goVars == <<gpc, gsrv>>
ghostVars == <<okSinceIdle, failedNoStart>>
idleVars == <<appVars, logMu, netVars, goVars, ghostVars, startsLeft, sideVars>>
lifeVars == <<mu, netVars, pc, args, result, goVars, ghostVars, startsLeft,
              isRunning, server>>

\* The variables of the log and request models, where they play no part.
NoHttp ==
    /\ windows = FALSE
    /\ fs = <<>>
    /\ req = <<>>
    /\ resp = <<>>
    /\ touched = {}
    /\ reqsLeft = 0
    /\ openFiles = 0
    /\ size = <<>>
    /\ sizeText = <<>>
    /\ inflight = <<>> /\ late = {}

\* No GetLogs call has returned to the caller yet.
NoSnapshot == [taken |-> FALSE, logs |-> <<>>]

SideInit ==
    /\ appends = [p \in Callers |-> 0]
    /\ clearsLeft = 0
    /\ snapshot = NoSnapshot
    /\ saveLogs = FALSE /\ logFile = <<>>
    /\ NoHttp

\* The App as NewApp returns it, no call made yet.
NewApp ==
    /\ isRunning = FALSE
    /\ server = NoServer
    /\ mu = NoOne
    /\ logMu = NoOne
    /\ logs = <<>>
    /\ numSrv = 0
    /\ srvAddr = [s \in Servers |-> <<>>]
    /\ srvClosed = {}
    /\ listening = {}
    /\ probe = NoOne
    /\ pc = [t \in Callers |-> "idle"]
    /\ args = [t \in Callers |-> NoArgs]
    /\ result = NoResult
    /\ gpc = [s \in Servers |-> "none"]
    /\ gsrv = [s \in Servers |-> NoServer]
    /\ okSinceIdle = 0
    /\ failedNoStart = FALSE
    /\ startsLeft = MaxStarts
    /\ appended = logs

Init == NewApp /\ SideInit

(***************************************************************************)
(* sync.Mutex and the sockets.                                             *)
(***************************************************************************)
\* A Lock that does not exclude: it returns though the mutex is held.
CanLockAlways(m) == TRUE

\* a.mu.Lock() returns only when nobody holds the mutex.
CanLock(m) == m = NoOne

\* Two listen addresses cannot both be bound: same port, and the same host
\* or one of them the unspecified address.
AddrConflict(a, b) ==
    LET x == SplitHostPort(a)
        y == SplitHostPort(b)
    IN  /\ x.ok /\ y.ok
        /\ Atoi(x.port).val = Atoi(y.port).val
        /\ x.host = y.host \/ x.host = AnyAddr \/ y.host = AnyAddr

\* The listen address of the call, line 768.
StartAddr(a) == FormatAddr(a.ip, Atoi(a.port).val)

\* net.Listen("tcp", addr) succeeds: the address is well formed, no listener
\* and no probe socket of this process holds it, and the system (other
\* processes, permissions) allows it.
CanListen(addr, open, systemOK) ==
    /\ ListenAddrOK(addr)
    /\ \A s \in open : ~AddrConflict(addr, srvAddr[s])
    /\ probe # NoOne => ~AddrConflict(addr, StartAddr(args[probe]))
    /\ systemOK

(***************************************************************************)
(* App.StartServer.  The whole body runs with a.mu held (Lock at line 698, *)
(* deferred Unlock); it is cut where it touches the sockets or publishes   *)
(* the new server, the points other goroutines can observe.                *)
(***************************************************************************)
\* A caller's StartServer(dir, ip, port) gets past a.mu.Lock(), line 698.
StartEnter(t, a) ==
    /\ pc[t] = "idle"
    /\ startsLeft > 0
    /\ CanLock(mu)
    /\ mu' = t
    /\ pc' = [pc EXCEPT ![t] = "StartCheck"]
    /\ args' = [args EXCEPT ![t] = a]
    /\ result' = NoResult
    /\ UNCHANGED idleVars

\* StartOutcome without the check of a.isRunning.
StartOutcomeNoRunningCheck(running, a, cwdOK) ==
    ValidateStart(a.dir, a.ip, a.port, cwdOK)

\* Lines 701-765: the running check, then the argument checks.
StartOutcome(running, a, cwdOK) ==
    IF running THEN "AlreadyRunning"
    ELSE ValidateStart(a.dir, a.ip, a.port, cwdOK)

\* StartFail without the deferred Unlock.
StartFailKeepsLock(t, code) ==
    /\ result' = [op |-> "start", success |-> FALSE, code |-> code, addr |-> <<>>,
                  url |-> <<>>, args |-> args[t]]
    /\ pc' = [pc EXCEPT ![t] = "idle"]
    /\ args' = [args EXCEPT ![t] = NoArgs]
    /\ UNCHANGED <<idleVars, mu>>

\* StartServer returns a failure: deferred Unlock, nothing else changes.
StartFail(t, code) ==
    /\ result' = [op |-> "start", success |-> FALSE, code |-> code, addr |-> <<>>,
                  url |-> <<>>, args |-> args[t]]
    /\ mu' = NoOne
    /\ pc' = [pc EXCEPT ![t] = "idle"]
    /\ args' = [args EXCEPT ![t] = NoArgs]
    /\ UNCHANGED idleVars

StartCheck(t) ==
    /\ pc[t] = "StartCheck"
    /\ \E cwdOK \in BOOLEAN :
         LET code == StartOutcome(isRunning, args[t], cwdOK)
         IN  IF code = "OK"
             THEN /\ pc' = [pc EXCEPT ![t] = "StartProbe"]
                  /\ UNCHANGED <<idleVars, mu, args, result>>
             ELSE StartFail(t, code)

\* Lines 769-774: net.Listen binds the address to see that it is free.
StartProbe(t) ==
    /\ pc[t] = "StartProbe"
    /\ \E systemOK \in BOOLEAN :
         IF CanListen(StartAddr(args[t]), listening, systemOK)
         THEN /\ probe' = t
              /\ pc' = [pc EXCEPT ![t] = "StartProbeClose"]
              /\ UNCHANGED <<appVars, mu, logMu, numSrv, srvAddr, srvClosed, listening,
                             args, result, goVars, ghostVars, startsLeft, sideVars>>
         ELSE StartFail(t, "PortUnavailable")

\* StartProbeClose without the call of listener.Close().
StartProbeNoClose(t) ==
    /\ pc[t] = "StartProbeClose"
    /\ pc' = [pc EXCEPT ![t] = "StartCreate"]
    /\ UNCHANGED <<idleVars, mu, args, result>>

\* Line 775: listener.Close() releases the probe socket.
StartProbeClose(t) ==
    /\ pc[t] = "StartProbeClose"
    /\ probe' = NoOne
    /\ pc' = [pc EXCEPT ![t] = "StartCreate"]
    /\ UNCHANGED <<appVars, mu, logMu, numSrv, srvAddr, srvClosed, listening,
                   args, result, goVars, ghostVars, startsLeft, sideVars>>

\* Lines 777-878: a.server = &http.Server{...}; go func(){...}();
\* a.isRunning = true.
StartCreate(t) ==
    /\ pc[t] = "StartCreate"
    /\ startsLeft > 0
    /\ startsLeft' = startsLeft - 1
    /\ LET id == numSrv + 1
       IN  /\ numSrv' = id
           /\ server' = id
           /\ srvAddr' = [srvAddr EXCEPT ![id] = StartAddr(args[t])]
           /\ gpc' = [gpc EXCEPT ![id] = "log"]
    /\ isRunning' = TRUE
    /\ failedNoStart' = FALSE
    /\ pc' = [pc EXCEPT ![t] = "StartLog"]
    /\ UNCHANGED <<mu, logMu, logs, appended, srvClosed, listening, probe, args,
                   result, gsrv, okSinceIdle, sideVars>>

\* Line 881: a.addLog gets past a.logMu.Lock() (line 945), a.mu still held.
StartLogLock(t) ==
    /\ pc[t] = "StartLog"
    /\ CanLock(logMu)
    /\ logMu' = t
    /\ pc' = [pc EXCEPT ![t] = "StartFinish"]
    /\ UNCHANGED <<appVars, mu, netVars, args, result, goVars, ghostVars,
                   startsLeft, sideVars>>

\* The URL of the success message with the port left out.
StartURLNoPort(a) == <<"h","t","t","p",":","/","/">> \o a.ip \o <<"/">>

\* Line 880: the URL in the success message, "http://%s/" of addr.
StartURL(a) == <<"h","t","t","p",":","/","/">> \o StartAddr(a) \o <<"/">>

\* Lines 879-882: the success result, the body of a.addLog with its
\* deferred Unlock of a.logMu, then the deferred Unlock of a.mu.
StartFinish(t) ==
    /\ pc[t] = "StartFinish"
    /\ logMu' = NoOne
    /\ logs' = addLog(logs, "started")
    /\ appended' = Append(appended, "started")
    /\ result' = [op |-> "start", success |-> TRUE, code |-> "Started",
                  addr |-> StartAddr(args[t]), url |-> StartURL(args[t]),
                  args |-> args[t]]
    /\ okSinceIdle' = okSinceIdle + 1
    /\ mu' = NoOne
    /\ pc' = [pc EXCEPT ![t] = "idle"]
    /\ args' = [args EXCEPT ![t] = NoArgs]
    /\ UNCHANGED <<isRunning, server, netVars, goVars, failedNoStart, startsLeft,
                   sideVars>>

(***************************************************************************)
(* App.StopServer.                                                         *)
(***************************************************************************)
\* A caller's StopServer() gets past a.mu.Lock(), line 889.
StopEnter(t) ==
    /\ pc[t] = "idle"
    /\ CanLock(mu)
    /\ mu' = t
    /\ pc' = [pc EXCEPT ![t] = "StopBody"]
    /\ result' = NoResult
    /\ UNCHANGED <<idleVars, args>>

\* StopOutcome without the check of a.isRunning.
StopOutcomeNoCheck(running, srv, closeErr) ==
    IF srv # NoServer /\ closeErr THEN "CloseError" ELSE "Stopped"

\* Lines 892-912: which return StopServer takes.
StopOutcome(running, srv, closeErr) ==
    IF ~running THEN "NotRunning"
    ELSE IF srv # NoServer /\ closeErr THEN "CloseError"
    ELSE "Stopped"

\* Lines 892-898: the check of a.isRunning and a.server.Close().
\* http.Server.Close marks the server closed and closes its listener; it can
\* report the error of closing that listener.  The call returns here when
\* the state is Idle (deferred Unlock), and when there is no handle to
\* close (lines 909-912); otherwise it goes on to a.addLog.
StopBody(t) ==
    /\ pc[t] = "StopBody"
    /\ \E closeErr \in BOOLEAN :
         /\ closeErr => server \in listening
         /\ LET code == StopOutcome(isRunning, server, closeErr)
            IN  IF code = "NotRunning" \/ server = NoServer
                THEN /\ result' = [op |-> "stop", success |-> code = "Stopped",
                                    code |-> code, addr |-> <<>>, url |-> <<>>,
                                    args |-> NoArgs]
                     /\ isRunning' = FALSE
                     /\ okSinceIdle' = IF code = "Stopped" THEN 0 ELSE okSinceIdle
                     /\ mu' = NoOne
                     /\ pc' = [pc EXCEPT ![t] = "idle"]
                     /\ UNCHANGED <<srvClosed, listening>>
                ELSE /\ srvClosed' = srvClosed \cup {server}
                     /\ listening' = listening \ {server}
                     /\ pc' = [pc EXCEPT ![t] = IF code = "CloseError"
                                                 THEN "StopLogErr" ELSE "StopLogOk"]
                     /\ UNCHANGED <<isRunning, okSinceIdle, mu, result>>
    /\ UNCHANGED <<server, logMu, logs, appended, numSrv, srvAddr, probe,
                   failedNoStart, args, goVars, startsLeft, sideVars>>

\* Lines 900 and 905: a.addLog gets past a.logMu.Lock() (line 945), a.mu
\* still held.
StopLogLock(t) ==
    /\ pc[t] \in {"StopLogErr", "StopLogOk"}
    /\ CanLock(logMu)
    /\ logMu' = t
    /\ pc' = [pc EXCEPT ![t] = IF pc[t] = "StopLogErr" THEN "StopFinishErr"
                                                        ELSE "StopFinishOk"]
    /\ UNCHANGED <<appVars, mu, netVars, args, result, goVars, ghostVars,
                   startsLeft, sideVars>>

\* Lines 900-903 (Close reported an error) and 905-912: the body of
\* a.addLog with its Unlock of a.logMu, the result, the deferred Unlock of
\* a.mu.  Only the second path sets a.isRunning = false (line 909).
StopFinish(t) ==
    /\ pc[t] \in {"StopFinishErr", "StopFinishOk"}
    /\ LET code == IF pc[t] = "StopFinishErr" THEN "CloseError" ELSE "Stopped"
           m == IF code = "CloseError" THEN "stop_error" ELSE "stopped"
       IN  /\ logs' = addLog(logs, m)
           /\ appended' = Append(appended, m)
           /\ result' = [op |-> "stop", success |-> code = "Stopped",
                          code |-> code, addr |-> <<>>, url |-> <<>>,
                          args |-> NoArgs]
           /\ isRunning' = IF code = "Stopped" THEN FALSE ELSE isRunning
           /\ okSinceIdle' = IF code = "Stopped" THEN 0 ELSE okSinceIdle
    /\ logMu' = NoOne
    /\ mu' = NoOne
    /\ pc' = [pc EXCEPT ![t] = "idle"]
    /\ UNCHANGED <<server, netVars, args, goVars, failedNoStart, startsLeft,
                   sideVars>>

(***************************************************************************)
(* The goroutine StartServer spawns (lines 860-876); g is the instance it  *)
(* was spawned for.                                                        *)
(***************************************************************************)
\* Lines 861-867: the seven a.addLog calls, in order.  They are taken as
\* one step: each is a critical section of logMu of its own, entered with no
\* other lock held, and nothing the lifecycle reads depends on how other
\* entries fall between them.
RECURSIVE addStartupLogs(_, _)
addStartupLogs(buf, i) ==
    IF i > NumStartupLogs THEN buf
    ELSE addStartupLogs(addLog(buf, StartupLog(i)), i + 1)

GoLog(g) ==
    /\ gpc[g] = "log"
    /\ CanLock(logMu)
    /\ logs' = addStartupLogs(logs, 1)
    /\ appended' = appended \o [i \in 1..NumStartupLogs |-> StartupLog(i)]
    /\ gpc' = [gpc EXCEPT ![g] = "listen"]
    /\ UNCHANGED <<isRunning, server, mu, logMu, netVars, pc, args, result, gsrv,
                   ghostVars, startsLeft, sideVars>>

\* The values the unsynchronised read of a.server at line 869 can return:
\* the one written before the goroutine was spawned, or any written since.
ReadServer(g, current) == {s \in Servers : g <= s /\ s <= current}

\* Line 869: a.server.ListenAndServe() up to the bind.  A closed server
\* returns ErrServerClosed at once; otherwise the address is bound or the
\* call returns the bind error.
GoListen(g) ==
    /\ gpc[g] = "listen"
    /\ \E s \in ReadServer(g, server), systemOK \in BOOLEAN :
         IF s \in srvClosed
         THEN /\ gpc' = [gpc EXCEPT ![g] = "done"]
              /\ UNCHANGED <<listening, gsrv, failedNoStart>>
         ELSE IF CanListen(srvAddr[s], listening, systemOK)
         THEN /\ gpc' = [gpc EXCEPT ![g] = "serving"]
              /\ gsrv' = [gsrv EXCEPT ![g] = s]
              /\ listening' = listening \cup {s}
              /\ UNCHANGED failedNoStart
         ELSE /\ gpc' = [gpc EXCEPT ![g] = "failed"]
              /\ failedNoStart' = TRUE
              /\ UNCHANGED <<listening, gsrv>>
    /\ UNCHANGED <<appVars, mu, logMu, numSrv, srvAddr, srvClosed, probe, pc, args,
                   result, okSinceIdle, startsLeft, sideVars>>

\* Line 869: the accept loop ends with an error of the socket; Serve closes
\* the listener and returns the error.
GoAcceptFail(g) ==
    /\ gpc[g] = "serving"
    /\ gsrv[g] \in listening
    /\ gsrv[g] \notin srvClosed
    /\ listening' = listening \ {gsrv[g]}
    /\ gpc' = [gpc EXCEPT ![g] = "failed"]
    /\ gsrv' = [gsrv EXCEPT ![g] = NoServer]
    /\ failedNoStart' = TRUE
    /\ UNCHANGED <<appVars, mu, logMu, numSrv, srvAddr, srvClosed, probe, pc, args,
                   result, okSinceIdle, startsLeft, sideVars>>

\* Line 869: the accept loop ends because the server was closed:
\* ListenAndServe returns ErrServerClosed and the goroutine ends.
GoServeClosed(g) ==
    /\ gpc[g] = "serving"
    /\ gsrv[g] \in srvClosed
    /\ gpc' = [gpc EXCEPT ![g] = "done"]
    /\ gsrv' = [gsrv EXCEPT ![g] = NoServer]
    /\ UNCHANGED <<appVars, mu, logMu, netVars, pc, args, result, ghostVars,
                   startsLeft, sideVars>>

\* Lines 870-872: a.mu.Lock(); a.isRunning = false; a.mu.Unlock().
GoFailReset(g) ==
    /\ gpc[g] = "failed"
    /\ CanLock(mu)
    /\ isRunning' = FALSE
    /\ okSinceIdle' = 0
    /\ gpc' = [gpc EXCEPT ![g] = "failLog"]
    /\ UNCHANGED <<server, mu, logMu, logs, appended, netVars, pc, args, result,
                   gsrv, failedNoStart, startsLeft, sideVars>>

\* Line 874: a.addLog("服务器错误: ..."), a critical section of a.logMu
\* entered with no other lock held.
GoFailLog(g) ==
    /\ gpc[g] = "failLog"
    /\ CanLock(logMu)
    /\ logs' = addLog(logs, "error")
    /\ appended' = Append(appended, "error")
    /\ gpc' = [gpc EXCEPT ![g] = "done"]
    /\ UNCHANGED <<isRunning, server, mu, logMu, netVars, pc, args, result, gsrv,
                   ghostVars, startsLeft, sideVars>>

(***************************************************************************)
(* Specifications.                                                         *)
(***************************************************************************)
Next ==
    \/ \E t \in Callers, a \in LifecycleArgs : StartEnter(t, a)
    \/ \E t \in Callers : StartCheck(t)
    \/ \E t \in Callers : StartProbe(t)
    \/ \E t \in Callers : StartProbeClose(t)
    \/ \E t \in Callers : StartCreate(t)
    \/ \E t \in Callers : StartLogLock(t)
    \/ \E t \in Callers : StartFinish(t)
    \/ \E t \in Callers : StopEnter(t)
    \/ \E t \in Callers : StopBody(t)
    \/ \E t \in Callers : StopLogLock(t)
    \/ \E t \in Callers : StopFinish(t)
    \/ \E g \in Servers : GoLog(g)
    \/ \E g \in Servers : GoListen(g)
    \/ \E g \in Servers : GoAcceptFail(g)
    \/ \E g \in Servers : GoServeClosed(g)
    \/ \E g \in Servers : GoFailReset(g)
    \/ \E g \in Servers : GoFailLog(g)

Spec == Init /\ [][Next]_vars

\* One StartServer call, with any arguments, on a freshly constructed App:
\* the call has just got past a.mu.Lock().
InitArgs ==
    /\ isRunning = FALSE
    /\ server = NoServer
    /\ mu = "c1"
    /\ logMu = NoOne
    /\ logs = <<>>
    /\ numSrv = 0
    /\ srvAddr = [s \in Servers |-> <<>>]
    /\ srvClosed = {}
    /\ listening = {}
    /\ probe = NoOne
    /\ pc = [t \in Callers |-> IF t = "c1" THEN "StartCheck" ELSE "idle"]
    /\ \E a \in AllArgs : args = [t \in Callers |-> IF t = "c1" THEN a ELSE NoArgs]
    /\ result = NoResult
    /\ gpc = [s \in Servers |-> "none"]
    /\ gsrv = [s \in Servers |-> NoServer]
    /\ okSinceIdle = 0
    /\ failedNoStart = FALSE
    /\ startsLeft = MaxStarts
    /\ appended = logs
    /\ SideInit

NextArgs ==
    \/ StartCheck("c1")
    \/ StartProbe("c1")
    \/ StartProbeClose("c1")
    \/ StartCreate("c1")
    \/ StartLogLock("c1")
    \/ StartFinish("c1")

SpecArgs == InitArgs /\ [][NextArgs]_vars

\* The App after StartServer succeeded and StopServer stopped the server
\* before the goroutine of that start was scheduled (a state Spec reaches);
\* from there, starts on either of two ports.
InitRestart ==
    /\ isRunning = FALSE
    /\ server = 1
    /\ mu = NoOne
    /\ logMu = NoOne
    /\ logs = <<"started", "stopped">>
    /\ numSrv = 1
    /\ srvAddr = [s \in Servers |-> IF s = 1 THEN FormatAddr(Loopback, 8085) ELSE <<>>]
    /\ srvClosed = {1}
    /\ listening = {}
    /\ probe = NoOne
    /\ pc = [t \in Callers |-> "idle"]
    /\ args = [t \in Callers |-> NoArgs]
    /\ result = [op |-> "stop", success |-> TRUE, code |-> "Stopped", addr |-> <<>>,
                 url |-> <<>>, args |-> NoArgs]
    /\ gpc = [s \in Servers |-> IF s = 1 THEN "log" ELSE "none"]
    /\ gsrv = [s \in Servers |-> NoServer]
    /\ okSinceIdle = 0
    /\ failedNoStart = FALSE
    /\ startsLeft = MaxStarts
    /\ appended = logs
    /\ SideInit

NextRestart ==
    \/ \E t \in Callers, a \in RestartArgs : StartEnter(t, a)
    \/ \E t \in Callers : StartCheck(t)
    \/ \E t \in Callers : StartProbe(t)
    \/ \E t \in Callers : StartProbeClose(t)
    \/ \E t \in Callers : StartCreate(t)
    \/ \E t \in Callers : StartLogLock(t)
    \/ \E t \in Callers : StartFinish(t)
    \/ \E t \in Callers : StopEnter(t)
    \/ \E t \in Callers : StopBody(t)
    \/ \E t \in Callers : StopLogLock(t)
    \/ \E t \in Callers : StopFinish(t)
    \/ \E g \in Servers : GoLog(g)
    \/ \E g \in Servers : GoListen(g)
    \/ \E g \in Servers : GoAcceptFail(g)
    \/ \E g \in Servers : GoServeClosed(g)
    \/ \E g \in Servers : GoFailReset(g)
    \/ \E g \in Servers : GoFailLog(g)

SpecRestart == InitRestart /\ [][NextRestart]_vars

\* The program state of InitRestart, as Spec reaches it.
RestartState ==
    /\ ~isRunning /\ server = 1 /\ mu = NoOne /\ numSrv = 1
    /\ logs = <<"started", "stopped">>
    /\ srvAddr[1] = FormatAddr(Loopback, 8085)
    /\ srvClosed = {1} /\ listening = {}
    /\ \A t \in Callers : pc[t] = "idle"
    /\ gpc[1] = "log"
    /\ result.code = "Stopped"

(***************************************************************************)
(* The log buffer: App.addLog and App.ClearLogs, called by two appenders   *)
(* in any interleaving.  A call is two steps: it gets past a.logMu.Lock(),  *)
(* then its body runs and unlocks.                                         *)
(***************************************************************************)
LogAppenders == Callers

\* The k-th message of appender p.
LogMessage(p, k) == <<p, k>>

\* The numbers of addLog calls made before a behaviour of SpecLog begins:
\* none, and up to the cap; the calls past the cap are steps of SpecLog.
PriorAppends == {0, MaxLogs - 2, MaxLogs - 1, MaxLogs}

\* a.logs after n <= MaxLogs calls a.addLog(LogMessage("init", k)),
\* k = 1..n, on the empty buffer: each call appends (line 947) and finds
\* the length within the cap (line 949).
FillLog(n) == [k \in 1..n |-> LogMessage("init", k)]

\* Caller t's call gets past a.logMu.Lock(): GetLogs (line 917), ClearLogs
\* (line 926) or the addLog of a request handler (line 945).
LogLock(t, call) ==
    /\ pc[t] = "idle"
    /\ call = "addLog" => appends[t] < MaxAppends
    /\ call = "ClearLogs" => clearsLeft > 0
    /\ CanLock(logMu)
    /\ logMu' = t
    /\ pc' = [pc EXCEPT ![t] = call]
    /\ UNCHANGED <<appVars, mu, netVars, args, result, goVars, ghostVars,
                   startsLeft, sideVars>>

\* a.addLog(message) called by p, lines 947-954: the append and the cap;
\* with a.saveLogs false the deferred Unlock follows, with a.saveLogs true
\* the call goes on to the log file with a.logMu held.
AddLogCall(p) ==
    /\ pc[p] = "addLog"
    /\ LET m == LogMessage(p, appends[p] + 1)
       IN  /\ logs' = addLog(logs, m)
           /\ appended' = Append(appended, m)
    /\ appends' = [appends EXCEPT ![p] = @ + 1]
    /\ IF saveLogs
       THEN /\ pc' = [pc EXCEPT ![p] = "addLogWrite"]
            /\ UNCHANGED logMu
       ELSE /\ pc' = [pc EXCEPT ![p] = "idle"]
            /\ logMu' = NoOne
    /\ UNCHANGED <<isRunning, server, mu, netVars, args, result, goVars,
                   ghostVars, startsLeft, clearsLeft, httpVars, snapshot,
                   persistVars>>

\* Lines 955-965 and the deferred Unlock: os.MkdirAll, os.OpenFile with
\* O_APPEND and f.WriteString add the line of the message to log/log.txt;
\* when one of them fails nothing is written and no error is reported.
AddLogWrite(p) ==
    /\ pc[p] = "addLogWrite"
    /\ \E written \in BOOLEAN :
         logFile' = IF written
                    THEN Append(logFile, LogMessage(p, appends[p]))
                    ELSE logFile
    /\ logMu' = NoOne
    /\ pc' = [pc EXCEPT ![p] = "idle"]
    /\ UNCHANGED <<appVars, mu, netVars, args, result, goVars, ghostVars,
                   startsLeft, appends, clearsLeft, httpVars, snapshot, saveLogs>>

\* POST /api/toggleSaveLogs, lines 1010-1017: a.saveLogs is set between
\* a.logMu.Lock() and a.logMu.Unlock(); the handler then logs the change.
ToggleSaveLogs(t, enable) ==
    /\ pc[t] = "idle"
    /\ appends[t] < MaxAppends
    /\ CanLock(logMu)
    /\ saveLogs' = enable
    /\ pc' = [pc EXCEPT ![t] = "toggled"]
    /\ UNCHANGED <<appVars, mu, logMu, netVars, args, result, goVars, ghostVars,
                   startsLeft, appends, clearsLeft, httpVars, snapshot, logFile>>

\* Lines 1018-1022: the handler's call of a.addLog gets past a.logMu.Lock().
ToggleLogLock(t) ==
    /\ pc[t] = "toggled"
    /\ CanLock(logMu)
    /\ logMu' = t
    /\ pc' = [pc EXCEPT ![t] = "addLog"]
    /\ UNCHANGED <<appVars, mu, netVars, args, result, goVars, ghostVars,
                   startsLeft, sideVars>>

\* a.ClearLogs(), line 928 and the deferred Unlock.
ClearLogs(t) ==
    /\ pc[t] = "ClearLogs"
    /\ clearsLeft' = clearsLeft - 1
    /\ logs' = <<>>
    /\ appended' = <<>>
    /\ logMu' = NoOne
    /\ pc' = [pc EXCEPT ![t] = "idle"]
    /\ UNCHANGED <<isRunning, server, mu, netVars, args, result, goVars,
                   ghostVars, startsLeft, appends, httpVars, snapshot,
                   persistVars>>

\* make with length 0: copy then has no room and copies nothing.
CopyLogsZeroLength(buf) ==
    LET made == <<>>
    IN  [i \in 1..Len(made) |-> IF i <= Len(buf) THEN buf[i] ELSE made[i]]

\* Lines 919-920: make([]string, len(a.logs)) and copy(logs, a.logs), which
\* copies as many elements as both slices hold.
CopyLogs(buf) ==
    LET made == [i \in 1..Len(buf) |-> ""]
    IN  [i \in 1..Len(made) |-> IF i <= Len(buf) THEN buf[i] ELSE made[i]]

\* a.GetLogs(), lines 919-921 and the deferred Unlock: the caller gets the
\* new slice; snapshot is the slice the latest call returned.
GetLogs(t) ==
    /\ pc[t] = "GetLogs"
    /\ snapshot' = [taken |-> TRUE, logs |-> CopyLogs(logs)]
    /\ logMu' = NoOne
    /\ pc' = [pc EXCEPT ![t] = "idle"]
    /\ UNCHANGED <<appVars, mu, netVars, args, result, goVars, ghostVars,
                   startsLeft, appends, clearsLeft, httpVars, persistVars>>

InitLog ==
    /\ isRunning = FALSE
    /\ server = NoServer
    /\ mu = NoOne
    /\ logMu = NoOne
    /\ \E n \in PriorAppends :
         /\ logs = FillLog(n)
         /\ appended = logs
    /\ numSrv = 0
    /\ srvAddr = [s \in Servers |-> <<>>]
    /\ srvClosed = {}
    /\ listening = {}
    /\ probe = NoOne
    /\ pc = [t \in Callers |-> "idle"]
    /\ args = [t \in Callers |-> NoArgs]
    /\ result = NoResult
    /\ gpc = [s \in Servers |-> "none"]
    /\ gsrv = [s \in Servers |-> NoServer]
    /\ okSinceIdle = 0
    /\ failedNoStart = FALSE
    /\ startsLeft = MaxStarts
    /\ appends = [p \in LogAppenders |-> 0]
    /\ clearsLeft = MaxClears
    /\ snapshot = NoSnapshot
    /\ saveLogs = FALSE /\ logFile = <<>>
    /\ NoHttp

NextLog ==
    \/ \E p \in LogAppenders : LogLock(p, "addLog")
    \/ \E p \in LogAppenders : LogLock(p, "ClearLogs")
    \/ \E p \in LogAppenders : AddLogCall(p)
    \/ \E p \in LogAppenders : ClearLogs(p)
    \/ \E p \in LogAppenders : AddLogWrite(p)
    \/ \E p \in LogAppenders, enable \in BOOLEAN : ToggleSaveLogs(p, enable)
    \/ \E p \in LogAppenders : ToggleLogLock(p)

SpecLog == InitLog /\ [][NextLog]_vars

(***************************************************************************)
(* The control plane as a whole: StartServer, StopServer, GetLogs and      *)
(* ClearLogs called by two callers, the goroutines of the servers, and     *)
(* request handlers that append to the log.                                *)
(***************************************************************************)
\* A call of an operation that is neither a path of the asset handler of
\* main (lines 981-1052) nor a method of App, which is what Bind (line 1060)
\* exposes: http.NotFound (lines 1053-1055), no state read or written.
CallUnknown(t, c) ==
    LET ControlPaths ==
            {"/", "/index.html", "/api/getLocalIPs", "/api/startServer",
             "/api/stopServer", "/api/getLogs", "/api/clearLogs",
             "/api/toggleSaveLogs", "/api/selectDirectory", "/api/qrcode"}
        AppMethods ==
            {"GetLocalIPs", "StartServer", "StopServer", "GetLogs", "ClearLogs",
             "SelectDirectory"}
    IN  /\ pc[t] = "idle"
        /\ c.path \notin ControlPaths /\ c.method \notin AppMethods
        /\ result' = [op |-> c.method, success |-> FALSE, code |-> "NotFound",
                      addr |-> <<>>, url |-> <<>>, args |-> NoArgs]
        /\ UNCHANGED <<appVars, mu, logMu, netVars, pc, args, goVars, ghostVars,
                       startsLeft, sideVars>>

\* A new App that one StartServer call may take past validation; each
\* caller has one handler append and the callers MaxClears ClearLogs to make.
InitCtl ==
    /\ isRunning = FALSE
    /\ server = NoServer
    /\ mu = NoOne
    /\ logMu = NoOne
    /\ logs = <<>>
    /\ numSrv = 0
    /\ srvAddr = [s \in Servers |-> <<>>]
    /\ srvClosed = {}
    /\ listening = {}
    /\ probe = NoOne
    /\ pc = [t \in Callers |-> "idle"]
    /\ args = [t \in Callers |-> NoArgs]
    /\ result = NoResult
    /\ gpc = [s \in Servers |-> "none"]
    /\ gsrv = [s \in Servers |-> NoServer]
    /\ okSinceIdle = 0
    /\ failedNoStart = FALSE
    /\ startsLeft = MaxStarts - 1
    /\ appended = logs
    /\ appends = [p \in Callers |-> MaxAppends - 1]
    /\ clearsLeft = MaxClears
    /\ snapshot = NoSnapshot
    /\ saveLogs = FALSE /\ logFile = <<>>
    /\ NoHttp

NextCtl ==
    \/ \E t \in Callers, a \in LifecycleArgs : StartEnter(t, a)
    \/ \E t \in Callers : StartCheck(t)
    \/ \E t \in Callers : StartProbe(t)
    \/ \E t \in Callers : StartProbeClose(t)
    \/ \E t \in Callers : StartCreate(t)
    \/ \E t \in Callers : StartLogLock(t)
    \/ \E t \in Callers : StartFinish(t)
    \/ \E t \in Callers : StopEnter(t)
    \/ \E t \in Callers : StopBody(t)
    \/ \E t \in Callers : StopLogLock(t)
    \/ \E t \in Callers : StopFinish(t)
    \/ \E g \in Servers : GoLog(g)
    \/ \E g \in Servers : GoListen(g)
    \/ \E g \in Servers : GoAcceptFail(g)
    \/ \E g \in Servers : GoServeClosed(g)
    \/ \E g \in Servers : GoFailReset(g)
    \/ \E g \in Servers : GoFailLog(g)
    \/ \E t \in Callers, call \in {"GetLogs", "ClearLogs", "addLog"} : LogLock(t, call)
    \/ \E t \in Callers : AddLogCall(t)
    \/ \E t \in Callers : ClearLogs(t)
    \/ \E t \in Callers : GetLogs(t)
    \/ \E t \in Callers :
          CallUnknown(t, [path |-> "/api/getRunState", method |-> "GetRunState"])

SpecCtl == InitCtl /\ [][NextCtl]_vars

(***************************************************************************)
(* Paths.  A string is a tuple of characters; a filesystem path is the     *)
(* tuple of its components, from the top of the filesystem.                *)
(***************************************************************************)
\* os.IsPathSeparator of the build target.
Seps(win) == IF win THEN {"/", "\\"} ELSE {"/"}

\* strings.HasPrefix and strings.TrimPrefix.
HasPrefix(s, p) == Len(s) >= Len(p) /\ SubSeq(s, 1, Len(p)) = p
TrimPrefix(s, p) == IF HasPrefix(s, p) THEN Drop(s, Len(p)) ELSE s
HasSuffix(s, p) == Len(s) >= Len(p) /\ SubSeq(s, Len(s) - Len(p) + 1, Len(s)) = p

\* strings.Contains(s, sub).
ContainsStr(s, sub) ==
    \E i \in 1..(Len(s) - Len(sub) + 1) : SubSeq(s, i, i + Len(sub) - 1) = sub

\* The components of s between the separators seps (empty ones included).
RECURSIVE SplitOn(_, _)
SplitOn(s, seps) ==
    LET k == FirstOf(s, seps)
    IN  IF k = 0 THEN <<s>>
        ELSE <<SubSeq(s, 1, k - 1)>> \o SplitOn(Drop(s, k), seps)

\* The walk of Clean over the components of a rooted path: "" and "." are
\* dropped, ".." removes the last component (none at the top).
RECURSIVE CleanParts(_, _)
CleanParts(base, parts) ==
    IF parts = <<>> THEN base
    ELSE LET c == Head(parts)
         IN  IF c = <<>> \/ c = <<".">> THEN CleanParts(base, Tail(parts))
             ELSE IF c = <<".", ".">>
             THEN CleanParts(IF base = <<>> THEN base
                             ELSE SubSeq(base, 1, Len(base) - 1), Tail(parts))
             ELSE CleanParts(Append(base, c), Tail(parts))

\* filepath.Join(base, rel) for an absolute, clean base.
Join(base, rel, win) == CleanParts(base, SplitOn(rel, Seps(win)))

\* s without its trailing separators.
RECURSIVE TrimSeps(_, _)
TrimSeps(s, seps) ==
    IF s # <<>> /\ s[Len(s)] \in seps
    THEN TrimSeps(SubSeq(s, 1, Len(s) - 1), seps) ELSE s

\* The index of the last element of s that is in cs, 0 when there is none.
LastOf(s, cs) ==
    IF \E i \in 1..Len(s) : s[i] \in cs
    THEN CHOOSE i \in 1..Len(s) : s[i] \in cs /\ \A j \in (i + 1)..Len(s) : s[j] \notin cs
    ELSE 0

\* filepath.Base left out: the name is used as supplied.
BaseKeepsPath(name, win) == name

\* filepath.Base(name).
Base(name, win) ==
    IF name = <<>> THEN <<".">>
    ELSE LET t == TrimSeps(name, Seps(win))
             last == Drop(t, LastOf(t, Seps(win)))
         IN  IF last = <<>> THEN (IF win THEN <<"\\">> ELSE <<"/">>) ELSE last

\* The guard of lines 232, 296, 790 and 826 with the test for ".." missing.
GuardRejectsSeparatorsOnly(name) ==
    Contains(name, "/") \/ Contains(name, "\\")

\* Lines 232, 296, 790, 826: the segment holds "/", "\" or "..".
GuardRejects(name) ==
    Contains(name, "/") \/ Contains(name, "\\") \/ ContainsStr(name, <<".", ".">>)

\* "/" followed by the components joined with "/".
RECURSIVE SlashJoin(_)
SlashJoin(parts) ==
    IF parts = <<>> THEN <<>>
    ELSE <<"/">> \o Head(parts) \o SlashJoin(Tail(parts))

\* cleanPath of net/http's ServeMux: path.Clean, the trailing slash kept.
CleanURL(p) ==
    LET q == IF p = <<>> \/ Head(p) # "/" THEN <<"/">> \o p ELSE p
        parts == CleanParts(<<>>, SplitOn(q, {"/"}))
        np == IF parts = <<>> THEN <<"/">> ELSE SlashJoin(parts)
    IN  IF q[Len(q)] = "/" /\ np # <<"/">> THEN Append(np, "/") ELSE np

\* containsDotDot of net/http: an element ".." between "/" or "\".
ContainsDotDot(p) ==
    \E i \in 1..Len(SplitOn(p, {"/", "\\"})) :
        SplitOn(p, {"/", "\\"})[i] = <<".", ".">>

(***************************************************************************)
(* The filesystem: a function from the paths that exist to                 *)
(* [dir, data].  The fixture agrees with Stat above: /tmp/site is the      *)
(* served directory, /srv the working directory of the process.            *)
(***************************************************************************)
IndexName == <<"i","n","d","e","x",".","h","t","m","l">>
ApiName == <<"a","p","i">>
TxtName == <<"t","x","t">>
JsonName == <<"j","s","o","n">>
TxtExt == <<".","t","x","t">>
JsonExt == <<".","j","s","o","n">>

\* absDir of the running server, and the working directory.
Root == << <<"t","m","p">>, <<"s","i","t","e">> >>
CwdPath == << <<"s","r","v">> >>

\* The directory a path lies in.
Parent(p) == SubSeq(p, 1, Len(p) - 1)

DirNode == [dir |-> TRUE, data |-> "-"]
FileNode(d) == [dir |-> FALSE, data |-> d]

FsFixture ==
    LET dirs == {<<>>, Parent(Root), Root, Root \o <<<<"d">>>>,
                 Root \o <<<<"d">>, <<"e">>>>, Root \o <<<<"d">>, <<"c">>>>,
                 Root \o <<<<"e">>>>,
                 Root \o <<ApiName>>, Root \o <<ApiName, <<"g","e","t">>>>,
                 CwdPath, Append(CwdPath, Root[2]), CwdPath \o <<ApiName>>,
                 CwdPath \o <<ApiName, TxtName>>, CwdPath \o <<ApiName, JsonName>>,
                 CwdPath \o <<ApiName, TxtName, <<"d">> \o TxtExt>>}
        files == {Root \o <<IndexName>>, Root \o <<<<"a">>>>,
                  Root \o <<<<"d">>, <<"B">>>>, Root \o <<<<"d">>, <<"a">>>>,
                  Root \o <<<<"e">>, IndexName>>,
                  Root \o <<ApiName, <<"g","e","t">>, <<"1">>>>,
                  Append(Parent(Root), <<"a">>),
                  CwdPath \o <<ApiName, TxtName, <<"1">> \o TxtExt>>,
                  CwdPath \o <<ApiName, JsonName, <<"1">> \o JsonExt>>,
                  CwdPath \o <<ApiName, <<"a">>>>}
    IN  [p \in dirs \cup files |-> IF p \in dirs THEN DirNode ELSE FileNode("orig")]

\* os.Stat(p): "dir", "file", or the error.  Below a file Unix reports
\* ENOTDIR; Windows reports ERROR_PATH_NOT_FOUND, which os.IsNotExist
\* accepts like ENOENT.
StatFS(f, p, win) ==
    IF p \in DOMAIN f THEN (IF f[p].dir THEN "dir" ELSE "file")
    ELSE IF ~win /\ \E k \in 1..(Len(p) - 1) :
                       SubSeq(p, 1, k) \in DOMAIN f /\ ~f[SubSeq(p, 1, k)].dir
    THEN "ENOTDIR"
    ELSE "ENOENT"

\* The entries of directory p, as [name, dir].
Children(f, p) ==
    {[name |-> q[Len(q)], dir |-> f[q].dir] : q \in {x \in DOMAIN f : x # <<>> /\ Parent(x) = p}}

\* f with node n at path p (created or replaced).
WithNode(f, p, n) == [q \in DOMAIN f \cup {p} |-> IF q = p THEN n ELSE f[q]]

(***************************************************************************)
(* App.serveDirectory, lines 371-387: the order of the listing.            *)
(***************************************************************************)
\* The characters of the model in increasing byte value.
ByteOrder ==
    <<".", "/", "1", "2", "B", "\\", "a", "b", "c", "d", "e", "h", "i", "j", "l",
      "m", "n", "o", "p", "r", "s", "t", "v", "x">>

Code(c) == CHOOSE i \in 1..Len(ByteOrder) : ByteOrder[i] = c

\* s < t of Go strings: byte-wise, a proper prefix first.
RECURSIVE StrLess(_, _)
StrLess(s, t) ==
    IF t = <<>> THEN FALSE
    ELSE IF s = <<>> THEN TRUE
    ELSE IF Code(Head(s)) # Code(Head(t)) THEN Code(Head(s)) < Code(Head(t))
    ELSE StrLess(Tail(s), Tail(t))

\* The comparison without the two tests of IsDir.
EntryLessByName(x, y) == StrLess(x.name, y.name)

\* The less function of lines 379-387.
EntryLess(x, y) ==
    IF x.dir /\ ~y.dir THEN TRUE
    ELSE IF ~x.dir /\ y.dir THEN FALSE
    ELSE StrLess(x.name, y.name)

\* sort.Slice(entries, less), as an insertion sort: x goes before the first
\* element it is less than.
RECURSIVE InsertEntry(_, _)
InsertEntry(x, sorted) ==
    IF sorted = <<>> THEN <<x>>
    ELSE IF EntryLess(x, Head(sorted)) THEN <<x>> \o sorted
    ELSE <<Head(sorted)>> \o InsertEntry(x, Tail(sorted))

RECURSIVE SortSlice(_)
SortSlice(entries) ==
    IF entries = <<>> THEN <<>>
    ELSE InsertEntry(Head(entries), SortSlice(Tail(entries)))

\* The orders in which the entries of a directory can be handed over.
RECURSIVE Orderings(_)
Orderings(S) ==
    IF S = {} THEN {<<>>}
    ELSE UNION {{<<x>> \o o : o \in Orderings(S \ {x})} : x \in S}

(***************************************************************************)
(* formatSize, lines 681-692.  An int64 that is not negative is the        *)
(* sequence of its digits to the base 1024, the most significant first,    *)
(* without leading zeros: 0 is <<>>, 2^63 - 1 is <<7, 1023, ..., 1023>>.   *)
(***************************************************************************)
Unit == 1024
Int64Digits == 7

\* The digits without the leading zeros.
RECURSIVE Normal(_)
Normal(x) == IF x # <<>> /\ Head(x) = 0 THEN Normal(Tail(x)) ELSE x

\* The value kept by 64 bits: the lowest 64 bits of x, which are the last
\* six digits and the four low bits of the digit before them.
Wrap64(x) ==
    IF Len(x) < Int64Digits THEN Normal(x)
    ELSE LET low == SubSeq(x, Len(x) - Int64Digits + 1, Len(x))
         IN  Normal(<<Head(low) % 16>> \o Tail(low))

\* x / unit and x * unit of int64; x >= unit is Len(x) >= 2.
DivUnit(x) == IF x = <<>> THEN <<>> ELSE SubSeq(x, 1, Len(x) - 1)
MulUnit(x) == Wrap64(IF x = <<>> THEN <<>> ELSE Append(x, 0))

\* Lines 687-690: the loop, n being bytes / unit at the start.
RECURSIVE SizeLoop(_, _, _)
SizeLoop(n, div, exp) ==
    IF Len(n) >= 2 THEN SizeLoop(DivUnit(n), MulUnit(div), exp + 1)
    ELSE [div |-> div, exp |-> exp]

\* formatSize with the loop started at bytes instead of bytes / unit.
formatSizeLoopOnBytes(bytes) ==
    LET letters == <<"K", "M", "G", "T", "P", "E">>
        r == SizeLoop(bytes, <<1, 0>>, 0)
    IN  IF Len(bytes) <= 1 THEN [num |-> bytes, div |-> <<1>>, suffix |-> " B"]
        ELSE [num |-> bytes, div |-> r.div,
              suffix |-> IF r.exp + 1 \in DOMAIN letters THEN letters[r.exp + 1] \o "B"
                         ELSE "index out of range"]

\* formatSize(bytes): the number printed is num / div, the text after it
\* suffix; "KMGTPE"[exp] panics when exp is not an index of the string.
formatSize(bytes) ==
    LET letters == <<"K", "M", "G", "T", "P", "E">>
        r == SizeLoop(DivUnit(bytes), <<1, 0>>, 0)
    IN  IF Len(bytes) <= 1 THEN [num |-> bytes, div |-> <<1>>, suffix |-> " B"]
        ELSE [num |-> bytes, div |-> r.div,
              suffix |-> IF r.exp + 1 \in DOMAIN letters THEN letters[r.exp + 1] \o "B"
                         ELSE "index out of range"]

(***************************************************************************)
(* Requests and responses.                                                 *)
(***************************************************************************)
NoJson == [ok |-> FALSE, action |-> "", name |-> <<>>]

Request(method, path, ctype, json, files) ==
    [method |-> method, path |-> path, ctype |-> ctype, json |-> json, files |-> files]

\* kind: "text" (http.Error, http.NotFound and plain bodies), "redirect",
\* "file" (the content of path), "listing" (entries), "dirlist" (the
\* listing of net/http for path), "none".
Response(status, kind, text, path, data, entries) ==
    [status |-> status, kind |-> kind, text |-> text, path |-> path, data |-> data,
     entries |-> entries]

TextResp(status, text) == Response(status, "text", text, <<>>, "", <<>>)
RedirectResp(to) == Response(301, "redirect", to, <<>>, "", <<>>)
NotFound == TextResp(404, "404 page not found")

NoReq == Request("", <<>>, "", NoJson, <<>>)
NoResp == Response(0, "none", "", <<>>, "", <<>>)

Touch(op, path) == [op |-> op, path |-> path]

\* What a handler does: its response, the filesystem it leaves, the paths it
\* accessed, the messages it passed to addLog and the number of files it
\* opened and did not close.
Outcome(r, f, t, msgs) ==
    [resp |-> r, fs |-> f, touched |-> t, msgs |-> msgs, open |-> 0]

\* Outcome o of a handler that opened n files and closed m of them.
Opened(o, n, m) == [o EXCEPT !.open = @ + n - m]

(***************************************************************************)
(* net/http: ServeMux with the patterns of lines 781, 817 and 852, and     *)
(* http.ServeFile.                                                         *)
(***************************************************************************)
GetPrefix == <<"/","a","p","i","/","g","e","t","/">>
GetJsonPrefix == <<"/","a","p","i","/","g","e","t","j","s","o","n","/">>
Patterns == {GetPrefix, GetJsonPrefix, <<"/">>}

\* ServeMux.Handler: "redirect:<to>" for a path that is not clean or lacks
\* the slash of a registered pattern, else the longest matching pattern.
MuxRedirectTo(p) ==
    LET c == CleanURL(p)
    IN  IF c \notin Patterns /\ Append(c, "/") \in Patterns THEN Append(c, "/")
        ELSE IF c # p THEN c
        ELSE <<>>

\* Route with the pattern "/" matched before the longer ones.
RouteCatchAllFirst(p) ==
    IF MuxRedirectTo(p) # <<>> THEN "redirect"
    ELSE "file"

Route(p) ==
    IF MuxRedirectTo(p) # <<>> THEN "redirect"
    ELSE IF HasPrefix(p, GetJsonPrefix) THEN "getjson"
    ELSE IF HasPrefix(p, GetPrefix) THEN "get"
    ELSE "file"

\* http.ServeFile(w, r, name) for URL path url.
ServeFile(f, url, name, win) ==
    IF ContainsDotDot(url) THEN Outcome(TextResp(400, "invalid URL path"), f, {}, <<>>)
    ELSE IF HasSuffix(url, <<"/">> \o IndexName)
    THEN Outcome(RedirectResp(<<".", "/">>), f, {}, <<>>)
    ELSE LET st == StatFS(f, name, win)
             idx == Append(name, IndexName)
         IN  IF st = "file"
             THEN Outcome(Response(200, "file", "", name, f[name].data, <<>>), f,
                          {Touch("read", name)}, <<>>)
             ELSE IF st = "dir"
             THEN IF url[Len(url)] # "/"
                  THEN Outcome(RedirectResp(Append(Base(url, FALSE), "/")), f,
                               {Touch("read", name)}, <<>>)
                  ELSE IF StatFS(f, idx, win) = "file"
                  THEN Outcome(Response(200, "file", "", idx, f[idx].data, <<>>), f,
                               {Touch("read", name), Touch("read", idx)}, <<>>)
                  ELSE Outcome(Response(200, "dirlist", "", name, "", <<>>), f,
                               {Touch("read", name), Touch("read", idx)}, <<>>)
             ELSE IF st = "ENOENT"
             THEN Outcome(NotFound, f, {Touch("read", name)}, <<>>)
             ELSE Outcome(TextResp(500, "500 Internal Server Error"), f,
                          {Touch("read", name)}, <<>>)

(***************************************************************************)
(* App.handleFileRequest, lines 123-149, and App.serveDirectory.           *)
(***************************************************************************)
\* filepath.Join(root, strings.TrimPrefix(r.URL.Path, "/")), lines 124, 167,
\* 238 and 302.
Resolve(root, url, win) == Join(root, TrimPrefix(url, <<"/">>), win)

\* Lines 123-149; order is the order in which os.ReadDir hands the entries
\* of the directory to serveDirectory.
FileGet(f, url, win, order) ==
    LET full == Resolve(Root, url, win)
        st == StatFS(f, full, win)
        idx == Append(full, IndexName)
        statted == {Touch("stat", full)}
    IN  IF st = "ENOENT" THEN Outcome(NotFound, f, statted, <<>>)
        ELSE IF st = "ENOTDIR"
        THEN Outcome(TextResp(500, "stat: not a directory"), f, statted, <<>>)
        ELSE IF st = "dir"
        THEN IF StatFS(f, idx, win) \in {"dir", "file"}
             THEN LET o == ServeFile(f, url, idx, win)
                  IN  [o EXCEPT !.touched = @ \cup statted \cup {Touch("stat", idx)}]
             ELSE Outcome(Response(200, "listing", "", full, "", SortSlice(order)), f,
                          statted \cup {Touch("stat", idx), Touch("list", full)}, <<>>)
        ELSE LET o == ServeFile(f, url, full, win)
             IN  [o EXCEPT !.touched = @ \cup statted]

(***************************************************************************)
(* The lookup handlers, lines 781-849.                                     *)
(***************************************************************************)
\* The lookup handlers without the test of the ID.
LookupUnguarded(f, url, prefix, sub, ext, win) ==
    LET id == TrimPrefix(url, prefix)
        filePath == Join(CwdPath \o <<ApiName, sub>>, id \o ext, win)
        st == StatFS(f, filePath, win)
        read == {Touch("read", filePath)}
    IN  IF id = <<>> THEN Outcome(NotFound, f, {}, <<>>)
        ELSE IF st = "file"
        THEN Outcome(Response(200, "file", "", filePath, f[filePath].data, <<>>), f,
                     read, <<>>)
        ELSE IF st = "ENOENT" THEN Outcome(NotFound, f, read, <<>>)
        ELSE Outcome(TextResp(500, "Internal Server Error"), f, read, <<>>)

\* Lines 783-813 and 819-848: prefix is the pattern, sub the directory
\* below api, ext the extension.  The path is relative to the working
\* directory of the process.
Lookup(f, url, prefix, sub, ext, win) ==
    LET id == TrimPrefix(url, prefix)
        filePath == Join(CwdPath \o <<ApiName, sub>>, id \o ext, win)
        st == StatFS(f, filePath, win)
        read == {Touch("read", filePath)}
    IN  IF id = <<>> THEN Outcome(NotFound, f, {}, <<>>)
        ELSE IF GuardRejects(id) THEN Outcome(TextResp(400, "Invalid ID"), f, {}, <<>>)
        ELSE IF st = "file"
        THEN Outcome(Response(200, "file", "", filePath, f[filePath].data, <<>>), f,
                     read, <<>>)
        ELSE IF st = "ENOENT" THEN Outcome(NotFound, f, read, <<>>)
        ELSE Outcome(TextResp(500, "Internal Server Error"), f, read, <<>>)

(***************************************************************************)
(* App.handleUpload, lines 153-204.                                        *)
(***************************************************************************)
\* r.MultipartForm.File["files"]: the parts that carry a file name, the
\* name passed through filepath.Base by mime/multipart (Part.FileName).
FormFiles(files, win) ==
    LET named == SelectSeq(files, LAMBDA x : x.filename # <<>>)
    IN  [i \in 1..Len(named) |->
            [filename |-> Base(named[i].filename, win), data |-> named[i].data]]

\* What can go wrong with one uploaded file apart from os.Create: nothing,
\* fileHeader.Open fails (line 176), io.Copy fails (line 193).
UploadFaults == {"none", "open", "copy"}

\* Lines 175-201: the files one after the other; acc is the outcome so far,
\* faults[i] what goes wrong with the i-th of the files left.
RECURSIVE UploadLoop(_, _, _, _, _)
UploadLoop(acc, files, faults, uploadDir, win) ==
    IF files = <<>> THEN acc
    ELSE LET filename == Base(Head(files).filename, win)
             dstPath == Join(uploadDir, filename, win)
             st == StatFS(acc.fs, dstPath, win)
             \* os.Create: O_CREATE|O_TRUNC; it fails on a directory and
             \* when the parent is not a directory.
             created == st = "file" \/ (st = "ENOENT" /\ StatFS(acc.fs, Parent(dstPath), win) = "dir")
             \* Open failed (line 177): no file is open.  os.Create failed
             \* (line 187): file is open, file.Close() at line 188.
             \* Otherwise file and dst are open, dst.Close() and
             \* file.Close() at lines 199 and 200.
             step == IF Head(faults) = "open"
                     THEN Outcome(acc.resp, acc.fs, acc.touched,
                                  Append(acc.msgs, "Error opening uploaded file"))
                     ELSE IF ~created
                     THEN Opened(Outcome(acc.resp, acc.fs,
                                         acc.touched \cup {Touch("create", dstPath)},
                                         Append(acc.msgs, "Error creating file")), 1, 1)
                     ELSE IF Head(faults) = "copy"
                     THEN Opened(Outcome(acc.resp,
                                         WithNode(acc.fs, dstPath, FileNode("partial")),
                                         acc.touched \cup {Touch("write", dstPath)},
                                         Append(acc.msgs, "Error saving file")), 2, 2)
                     ELSE Opened(Outcome(acc.resp,
                                         WithNode(acc.fs, dstPath, FileNode(Head(files).data)),
                                         acc.touched \cup {Touch("write", dstPath)},
                                         Append(acc.msgs, "File uploaded")), 2, 2)
             next == [step EXCEPT !.open = @ + acc.open]
         IN  UploadLoop(next, Tail(files), Tail(faults), uploadDir, win)

\* handleUpload with the test of the upload directory left out.
UploadNoDirCheck(f, r, win, faults) ==
    LET files == FormFiles(r.files, win)
        uploadDir == Resolve(Root, r.path, win)
        statted == {Touch("stat", uploadDir)}
    IN  IF r.ctype # "multipart"
        THEN Outcome(TextResp(400, "Failed to parse form"), f, {}, <<>>)
        ELSE IF files = <<>> THEN Outcome(TextResp(400, "No files uploaded"), f, {}, <<>>)
        ELSE UploadLoop(Outcome(Response(200, "none", "", <<>>, "", <<>>), f, statted, <<>>),
                        files, faults, uploadDir, win)

\* handleUpload that gives up at the first file that fails.
UploadStopsAtFailure(f, r, win, faults) ==
    LET files == FormFiles(r.files, win)
        uploadDir == Resolve(Root, r.path, win)
        statted == {Touch("stat", uploadDir)}
        done == UploadLoop(Outcome(Response(200, "none", "", <<>>, "", <<>>), f, statted, <<>>),
                           <<Head(files)>>, <<Head(faults)>>, uploadDir, win)
    IN  IF r.ctype # "multipart"
        THEN Outcome(TextResp(400, "Failed to parse form"), f, {}, <<>>)
        ELSE IF files = <<>> THEN Outcome(TextResp(400, "No files uploaded"), f, {}, <<>>)
        ELSE IF StatFS(f, uploadDir, win) # "dir"
        THEN Outcome(TextResp(400, "Invalid upload directory"), f, statted, <<>>)
        ELSE IF done.msgs # <<"File uploaded">>
        THEN [done EXCEPT !.resp = TextResp(500, "Upload failed")]
        ELSE UploadLoop(done, Tail(files), Tail(faults), uploadDir, win)

\* Lines 153-204; faults[i] is what goes wrong with the i-th file.
Upload(f, r, win, faults) ==
    LET files == FormFiles(r.files, win)
        uploadDir == Resolve(Root, r.path, win)
        statted == {Touch("stat", uploadDir)}
    IN  IF r.ctype # "multipart"
        THEN Outcome(TextResp(400, "Failed to parse form"), f, {}, <<>>)
        ELSE IF files = <<>> THEN Outcome(TextResp(400, "No files uploaded"), f, {}, <<>>)
        ELSE IF StatFS(f, uploadDir, win) # "dir"
        THEN Outcome(TextResp(400, "Invalid upload directory"), f, statted, <<>>)
        ELSE UploadLoop(Outcome(Response(200, "none", "", <<>>, "", <<>>), f, statted, <<>>),
                        files, faults, uploadDir, win)

(***************************************************************************)
(* App.handleJSONRequest, App.handleFolderCreation and                     *)
(* App.handleFileCreation, lines 207-368.                                  *)
(***************************************************************************)
\* The creation handlers with the test for an existing entry left out.
CreateNoExistCheck(f, r, win, folder) ==
    LET name == r.json.name
        targetDir == Resolve(Root, r.path, win)
        newPath == Join(targetDir, name, win)
        statDir == {Touch("stat", targetDir)}
        statNew == statDir \cup {Touch("stat", newPath)}
    IN  IF name = <<>>
        THEN Outcome(TextResp(400, IF folder THEN "Folder name is required"
                                             ELSE "File name is required"), f, {}, <<>>)
        ELSE IF GuardRejects(name)
        THEN Outcome(TextResp(400, IF folder THEN "Invalid folder name"
                                             ELSE "Invalid file name"), f, {}, <<>>)
        ELSE IF StatFS(f, targetDir, win) # "dir"
        THEN Outcome(TextResp(400, "Invalid target directory"), f, statDir, <<>>)
        ELSE Opened(Outcome(TextResp(200, IF folder THEN "Folder created successfully"
                                                    ELSE "File created successfully"),
                            WithNode(f, newPath,
                                     IF folder THEN DirNode ELSE FileNode("empty")),
                            statNew \cup {Touch("write", newPath)},
                            <<IF folder THEN "Folder created" ELSE "File created">>),
                    IF folder THEN 0 ELSE 1, 0)

\* The creation handlers without the call of a.addLog (lines 263, 327).
CreateNoLog(f, r, win, folder) ==
    LET name == r.json.name
        targetDir == Resolve(Root, r.path, win)
        newPath == Join(targetDir, name, win)
        statDir == {Touch("stat", targetDir)}
        statNew == statDir \cup {Touch("stat", newPath)}
    IN  IF name = <<>>
        THEN Outcome(TextResp(400, IF folder THEN "Folder name is required"
                                             ELSE "File name is required"), f, {}, <<>>)
        ELSE IF GuardRejects(name)
        THEN Outcome(TextResp(400, IF folder THEN "Invalid folder name"
                                             ELSE "Invalid file name"), f, {}, <<>>)
        ELSE IF StatFS(f, targetDir, win) # "dir"
        THEN Outcome(TextResp(400, "Invalid target directory"), f, statDir, <<>>)
        ELSE IF StatFS(f, newPath, win) \in {"dir", "file"}
        THEN Outcome(TextResp(409, IF folder THEN "Folder already exists"
                                             ELSE "File already exists"), f, statNew, <<>>)
        ELSE Outcome(TextResp(200, IF folder THEN "Folder created successfully"
                                             ELSE "File created successfully"),
                     WithNode(f, newPath, IF folder THEN DirNode ELSE FileNode("empty")),
                     statNew \cup {Touch("write", newPath)}, <<>>)

\* Lines 225-267 (folder = TRUE) and 289-331 (folder = FALSE), which differ
\* in the messages and in the call that creates the entry: os.MkdirAll
\* opens nothing, os.Create returns an open *os.File, which line 321
\* discards.
Create(f, r, win, folder) ==
    LET name == r.json.name
        targetDir == Resolve(Root, r.path, win)
        newPath == Join(targetDir, name, win)
        statDir == {Touch("stat", targetDir)}
        statNew == statDir \cup {Touch("stat", newPath)}
    IN  IF name = <<>>
        THEN Outcome(TextResp(400, IF folder THEN "Folder name is required"
                                             ELSE "File name is required"), f, {}, <<>>)
        ELSE IF GuardRejects(name)
        THEN Outcome(TextResp(400, IF folder THEN "Invalid folder name"
                                             ELSE "Invalid file name"), f, {}, <<>>)
        ELSE IF StatFS(f, targetDir, win) # "dir"
        THEN Outcome(TextResp(400, "Invalid target directory"), f, statDir, <<>>)
        ELSE IF StatFS(f, newPath, win) \in {"dir", "file"}
        THEN Outcome(TextResp(409, IF folder THEN "Folder already exists"
                                             ELSE "File already exists"), f, statNew, <<>>)
        ELSE Opened(Outcome(TextResp(200, IF folder THEN "Folder created successfully"
                                                    ELSE "File created successfully"),
                            WithNode(f, newPath,
                                     IF folder THEN DirNode ELSE FileNode("empty")),
                            statNew \cup {Touch("write", newPath)},
                            <<IF folder THEN "Folder created" ELSE "File created">>),
                    IF folder THEN 0 ELSE 1, 0)

\* handleJSONRequest with the two handlers exchanged.
JSONRequestSwapped(f, r, win) ==
    IF ~r.json.ok THEN Outcome(TextResp(400, "Invalid request"), f, {}, <<>>)
    ELSE IF r.json.action = "createFolder" THEN Create(f, r, win, FALSE)
    ELSE IF r.json.action = "createFile" THEN Create(f, r, win, TRUE)
    ELSE Outcome(TextResp(400, "Invalid action"), f, {}, <<>>)

\* Lines 335-368: the action of the body chooses the handler.
JSONRequest(f, r, win) ==
    IF ~r.json.ok THEN Outcome(TextResp(400, "Invalid request"), f, {}, <<>>)
    ELSE IF r.json.action = "createFolder" THEN Create(f, r, win, TRUE)
    ELSE IF r.json.action = "createFile" THEN Create(f, r, win, FALSE)
    ELSE Outcome(TextResp(400, "Invalid action"), f, {}, <<>>)

(***************************************************************************)
(* The requests sent to the running server.                                *)
(***************************************************************************)
GetPaths ==
    {<<"/">> \o s : s \in SeqsUpTo({"/", "\\", ".", "a", "d"}, MaxUrlLen - 1)} \cup
    {<<"/">> \o IndexName, <<"/","e","/">> \o IndexName,
     <<"/","e">>, <<"/","e","/">>, <<"/","d","/","e","/">>, <<"/","d","/","c","/">>,
     <<"/","n">>, <<"/","a","/","n">>, <<"/","a","/","a">>, <<"/","d","/","a">>,
     <<"/","d","/","B">>, <<"/",".",".","\\">>, <<"/","d","\\","a">>,
     <<"/","d","\\",".",".","\\","a">>,
     <<"/",".",".","\\",".",".","\\">>, <<"/",".",".","\\",".",".","\\","s","r","v">>}

LookupPaths ==
    {prefix \o id : prefix \in {GetPrefix, GetJsonPrefix}, id \in
    {<<>>, <<"1">>, <<"2">>, <<"d">>, <<".">>, <<".",".">>, <<"a",".",".","a">>,
     <<"a","/","1">>, <<"a","\\","1">>, <<".",".","\\","1">>, <<".",".","/","1">>,
     <<".",".","/","a">>}}
    \cup {<<"/","a","p","i">>, <<"/","a","p","i","/","g","e","t">>,
          <<"/","a","p","i","/","g","e","t","j","s","o","n">>}

PostPaths ==
    {<<"/">>, <<"/","d">>, <<"/","a">>, <<"/","n","/">>, <<"/",".",".","\\">>}

JsonBodies ==
    {NoJson, [ok |-> TRUE, action |-> "delete", name |-> <<"n">>]} \cup
    [ok : {TRUE}, action : {"createFolder", "createFile"},
     name : SeqsUpTo({".", "/", "\\", "a"}, MaxNameLen) \cup
            {<<"d">>, <<"n">>, <<"B">>, <<"a",".",".","a">>, IndexName}]

FileLists ==
    {<<>>} \cup
    {<<[filename |-> n, data |-> "up1"]>> : n \in
    {<<>>, <<"n">>, <<"a">>, <<"d">>, <<".">>, <<".",".">>, <<"/">>,
     <<".",".","/",".",".","/","n">>, <<".",".","\\","n">>, <<"d","/">>,
     <<"e","/",".",".","/","n">>}} \cup
    {<<[filename |-> <<"n">>, data |-> "up1"], [filename |-> <<"n">>, data |-> "up2"]>>,
     <<[filename |-> <<"a">>, data |-> "up1"],
       [filename |-> <<".",".","/",".",".","/","n">>, data |-> "up2"]>>,
     <<[filename |-> <<"d">>, data |-> "up1"], [filename |-> <<"n">>, data |-> "up2"]>>,
     <<[filename |-> <<"n">>, data |-> "up1"], [filename |-> <<"d">>, data |-> "up2"]>>}

Requests ==
    {Request("GET", p, "", NoJson, <<>>) : p \in GetPaths \cup LookupPaths} \cup
    {Request("DELETE", p, "", NoJson, <<>>) :
        p \in {<<"/">>, <<"/","a">>, <<"/","d","/">>, <<"/","n">>}} \cup
    {Request("POST", p, "json", b, <<>>) : p \in PostPaths, b \in JsonBodies} \cup
    {Request("POST", p, "multipart", NoJson, fl) : p \in PostPaths, fl \in FileLists} \cup
    {Request("HEAD", <<"/","a">>, "", NoJson, <<>>),
     Request("PUT", <<"/","d">>, "json",
             [ok |-> TRUE, action |-> "createFile", name |-> <<"n">>], <<>>),
     Request("PUT", <<"/","d","/">>, "multipart", NoJson,
             <<[filename |-> <<"n">>, data |-> "up1"]>>),
     Request("POST", GetJsonPrefix \o <<"1">>, "multipart", NoJson,
             <<[filename |-> <<"n">>, data |-> "up1"]>>),
     Request("POST", <<"/">>, "text", NoJson, <<>>),
     Request("POST", <<"/","e","/",".",".","/","d">>, "json",
             [ok |-> TRUE, action |-> "createFile", name |-> <<"n">>], <<>>),
     Request("POST", GetPrefix \o <<"1">>, "json",
             [ok |-> TRUE, action |-> "createFile", name |-> <<"n">>], <<>>)}

\* HandlerOf without the test of the method at line 111.
HandlerOfAnyMethod(r) ==
    IF Route(r.path) # "file" THEN Route(r.path)
    ELSE IF r.ctype = "json" THEN "json"
    ELSE IF r.ctype = "multipart" THEN "upload"
    ELSE "file"

\* The handler a request ends in: the choice of ServeMux, then that of
\* handleFileRequest (lines 108-121).
HandlerOf(r) ==
    IF Route(r.path) # "file" THEN Route(r.path)
    ELSE IF r.method # "POST" THEN "file"
    ELSE IF r.ctype = "json" THEN "json"
    ELSE "upload"

\* The requests of each handler.
RequestsOf ==
    [h \in {"redirect", "get", "getjson", "file", "upload", "json"} |->
        {r \in Requests : HandlerOf(r) = h}]

(***************************************************************************)
(* The handlers as steps: each request is handled in one step.             *)
(***************************************************************************)
RECURSIVE addLogs(_, _)
addLogs(buf, msgs) ==
    IF msgs = <<>> THEN buf ELSE addLogs(addLog(buf, Head(msgs)), Tail(msgs))

\* The handler of request r ends with outcome o.
Serve(r, o) ==
    /\ reqsLeft > 0
    /\ reqsLeft' = reqsLeft - 1
    /\ req' = r
    /\ resp' = o.resp
    /\ fs' = o.fs
    /\ touched' = o.touched
    /\ logs' = addLogs(logs, o.msgs)
    /\ appended' = appended \o o.msgs
    /\ openFiles' = openFiles + o.open
    /\ UNCHANGED <<lifeVars, logMu, appends, clearsLeft, windows, size, sizeText,
                   inflight, late, snapshot, persistVars>>

\* ServeMux answers itself: the path is not clean, or lacks a final slash.
MuxRedirect(r) ==
    /\ reqsLeft > 0
    /\ r \in RequestsOf["redirect"]
    /\ Serve(r, Outcome(RedirectResp(MuxRedirectTo(r.path)), fs, {}, <<>>))

\* The handler of line 781.
LookupGet(r) ==
    /\ reqsLeft > 0
    /\ r \in RequestsOf["get"]
    /\ Serve(r, Lookup(fs, r.path, GetPrefix, TxtName, TxtExt, windows))

\* The handler of line 817.
LookupGetJSON(r) ==
    /\ reqsLeft > 0
    /\ r \in RequestsOf["getjson"]
    /\ Serve(r, Lookup(fs, r.path, GetJsonPrefix, JsonName, JsonExt, windows))

\* The orders os.ReadDir may hand the entries over in, when the request
\* ends in serveDirectory.
ReadDirOrders(f, url, win) ==
    LET full == Resolve(Root, url, win)
    IN  IF StatFS(f, full, win) = "dir"
           /\ StatFS(f, Append(full, IndexName), win) \notin {"dir", "file"}
        THEN Orderings(Children(f, full))
        ELSE {<<>>}

\* handleFileRequest, any method but POST.
HandleGet(r) ==
    /\ reqsLeft > 0
    /\ r \in RequestsOf["file"]
    /\ \E order \in ReadDirOrders(fs, r.path, windows) :
         Serve(r, FileGet(fs, r.path, windows, order))

\* handleFileRequest, POST without a JSON content type: handleUpload.
HandleUpload(r) ==
    /\ reqsLeft > 0
    /\ r \in RequestsOf["upload"]
    /\ \E faults \in [1..Len(FormFiles(r.files, windows)) -> UploadFaults] :
         Serve(r, Upload(fs, r, windows, faults))

\* handleFileRequest, POST with a JSON content type: handleJSONRequest and
\* the creation handler it chooses.
HandleJSON(r) ==
    /\ reqsLeft > 0
    /\ r \in RequestsOf["json"]
    /\ Serve(r, JSONRequest(fs, r, windows))

\* A server started on Root is listening; the build target is either one.
InitHttp ==
    /\ isRunning = TRUE
    /\ server = 1
    /\ mu = NoOne
    /\ logMu = NoOne
    /\ logs = addStartupLogs(<<"started">>, 1)
    /\ appended = logs
    /\ numSrv = 1
    /\ srvAddr = [s \in Servers |-> IF s = 1 THEN FormatAddr(Loopback, 8085) ELSE <<>>]
    /\ srvClosed = {}
    /\ listening = {1}
    /\ probe = NoOne
    /\ pc = [t \in Callers |-> "idle"]
    /\ args = [t \in Callers |-> NoArgs]
    /\ result = [op |-> "start", success |-> TRUE, code |-> "Started",
                 addr |-> FormatAddr(Loopback, 8085),
                 url |-> StartURL([dir |-> SiteDir, ip |-> Loopback, port |-> Port8085]),
                 args |-> [dir |-> SiteDir, ip |-> Loopback, port |-> Port8085]]
    /\ gpc = [s \in Servers |-> IF s = 1 THEN "serving" ELSE "none"]
    /\ gsrv = [s \in Servers |-> IF s = 1 THEN 1 ELSE NoServer]
    /\ okSinceIdle = 1
    /\ failedNoStart = FALSE
    /\ startsLeft = MaxStarts - 1
    /\ appends = [p \in Callers |-> 0]
    /\ clearsLeft = 0
    /\ snapshot = NoSnapshot
    /\ saveLogs = FALSE /\ logFile = <<>>
    /\ windows \in BOOLEAN
    /\ fs = FsFixture
    /\ req = NoReq
    /\ resp = NoResp
    /\ touched = {}
    /\ reqsLeft = MaxRequests
    /\ openFiles = 0
    /\ size = <<>>
    /\ sizeText = <<>>
    /\ inflight = <<>> /\ late = {}

NextHttp ==
    \/ \E r \in RequestsOf["redirect"] : MuxRedirect(r)
    \/ \E r \in RequestsOf["get"] : LookupGet(r)
    \/ \E r \in RequestsOf["getjson"] : LookupGetJSON(r)
    \/ \E r \in RequestsOf["file"] : HandleGet(r)
    \/ \E r \in RequestsOf["upload"] : HandleUpload(r)
    \/ \E r \in RequestsOf["json"] : HandleJSON(r)

SpecHttp == InitHttp /\ [][NextHttp]_vars

(***************************************************************************)
(* formatSize applied to the sizes of files (line 528).                    *)
(***************************************************************************)
\* Sizes from 0 to 2^63 - 1: every length, with the smallest, the second
\* smallest and the largest digit in every place.
SizeInputs ==
    {<<>>} \cup
    {<<h>> \o t : h \in {1, 2, Unit - 1},
                  t \in UNION {[1..k -> {0, 1, Unit - 1}] : k \in 0..(Int64Digits - 2)}} \cup
    {<<h>> \o t : h \in {1, 7}, t \in [1..(Int64Digits - 1) -> {0, Unit - 1}]}

InitSize ==
    /\ NewApp
    /\ appends = [p \in Callers |-> 0]
    /\ clearsLeft = 0
    /\ snapshot = NoSnapshot
    /\ saveLogs = FALSE /\ logFile = <<>>
    /\ windows = FALSE
    /\ fs = <<>>
    /\ req = <<>>
    /\ resp = <<>>
    /\ touched = {}
    /\ reqsLeft = 0
    /\ openFiles = 0
    /\ size \in SizeInputs
    /\ sizeText = <<>>
    /\ inflight = <<>> /\ late = {}

\* Line 528: sizeStr = formatSize(info.Size()).
FormatSize ==
    /\ sizeText = <<>>
    /\ sizeText' = formatSize(size)
    /\ UNCHANGED <<appVars, mu, logMu, netVars, pc, args, result, goVars, ghostVars,
                   startsLeft, appends, clearsLeft, windows, fs, req, resp, touched,
                   reqsLeft, openFiles, size, inflight, late, snapshot,
                   persistVars>>

SpecSize == InitSize /\ [][FormatSize]_vars

(***************************************************************************)
(* The handlers as goroutines: net/http runs the handler of each request   *)
(* in a goroutine of its own, and the creation and upload handlers are     *)
(* several system calls each.  The record of a handler holds its position, *)
(* its request, the index of the uploaded file it is at, the message it is *)
(* about to log and the response it wrote.                                 *)
(***************************************************************************)
Handlers == {"h1", "h2"}

NoHandler == [pc |-> "none", r |-> NoReq, i |-> 0, msg |-> "", resp |-> NoResp]

\* Creations and uploads that meet in directory d of the root.
RaceRequests ==
    {Request("POST", <<"/","d">>, "json", [ok |-> TRUE, action |-> a, name |-> <<"n">>], <<>>) :
        a \in {"createFolder", "createFile"}} \cup
    {Request("POST", <<"/","d">>, "json",
             [ok |-> TRUE, action |-> "createFile", name |-> <<"a">>], <<>>),
     Request("POST", <<"/","d">>, "multipart", NoJson,
             <<[filename |-> <<"n">>, data |-> "up1"]>>)}

\* The path a creation handler creates (lines 248 and 312), and the path
\* the upload handler writes its i-th file to (lines 183-184).
NewPath(r, win) == Join(Resolve(Root, r.path, win), r.json.name, win)
DstPath(r, i, win) ==
    Join(Resolve(Root, r.path, win), FormFiles(r.files, win)[i].filename, win)

\* What no step of a handler touches.
HandlerFrame ==
    UNCHANGED <<lifeVars, logMu, appends, clearsLeft, windows, req, resp, touched,
                size, sizeText, snapshot, persistVars>>

\* What a handler did while the application was Idle.
Late(what) == IF isRunning THEN late ELSE late \cup {what}

\* The accept loop of the listening server hands request r to a new
\* goroutine h, the first one that is free.
Accept(h, r) ==
    /\ reqsLeft > 0
    /\ listening # {}
    /\ inflight[h].pc \in {"none", "done"}
    /\ h = "h2" => inflight["h1"].pc \notin {"none", "done"}
    /\ HandlerOf(r) \in {"json", "upload"}
    /\ reqsLeft' = reqsLeft - 1
    /\ inflight' = [inflight EXCEPT ![h] = [NoHandler EXCEPT !.pc = "check", !.r = r]]
    /\ UNCHANGED <<fs, logs, appended, openFiles, late>>
    /\ HandlerFrame

\* The handler up to the call that creates: lines 207-255, 271-319 and
\* 153-173, with the replies 400 and 409 of these lines.
HandlerCheck(h) ==
    /\ inflight[h].pc = "check"
    /\ LET r == inflight[h].r
           json == HandlerOf(r) = "json"
           o == IF json THEN JSONRequest(fs, r, windows)
                ELSE Upload(fs, r, windows,
                            [k \in 1..Len(FormFiles(r.files, windows)) |-> "none"])
       IN  inflight' = [inflight EXCEPT ![h] =
                IF o.resp.status # 200
                THEN [@ EXCEPT !.pc = "done", !.resp = o.resp]
                ELSE [@ EXCEPT !.pc = IF json THEN "create" ELSE "ucreate", !.i = 1]]
    /\ UNCHANGED <<fs, logs, appended, openFiles, late, reqsLeft>>
    /\ HandlerFrame

\* Lines 257-260 and 321-324.  os.MkdirAll succeeds on an existing
\* directory and fails on a file; os.Create truncates an existing file and
\* fails on a directory, and the file it returns stays open.
HandlerCreate(h) ==
    /\ inflight[h].pc = "create"
    /\ LET r == inflight[h].r
           folder == r.json.action = "createFolder"
           newPath == NewPath(r, windows)
           st == StatFS(fs, newPath, windows)
           fails == IF folder THEN st \in {"file", "ENOTDIR"} ELSE st \in {"dir", "ENOTDIR"}
       IN  IF fails
           THEN /\ inflight' = [inflight EXCEPT ![h] =
                        [@ EXCEPT !.pc = "done",
                                  !.resp = TextResp(500, IF folder THEN "Failed to create folder"
                                                                   ELSE "Failed to create file")]]
                /\ UNCHANGED <<fs, openFiles, late>>
           ELSE /\ fs' = IF folder
                         THEN (IF st = "dir" THEN fs ELSE WithNode(fs, newPath, DirNode))
                         ELSE WithNode(fs, newPath, FileNode("empty"))
                /\ openFiles' = openFiles + (IF folder THEN 0 ELSE 1)
                /\ late' = Late("write")
                /\ inflight' = [inflight EXCEPT ![h] =
                        [@ EXCEPT !.pc = "log",
                                  !.msg = IF folder THEN "Folder created" ELSE "File created"]]
    /\ UNCHANGED <<logs, appended, reqsLeft>>
    /\ HandlerFrame

\* Lines 176-190: fileHeader.Open and os.Create(dstPath), which truncates.
HandlerUCreate(h) ==
    /\ inflight[h].pc = "ucreate"
    /\ LET r == inflight[h].r
           dstPath == DstPath(r, inflight[h].i, windows)
           st == StatFS(fs, dstPath, windows)
       IN  \E opened \in BOOLEAN :
              IF ~opened
              THEN /\ inflight' = [inflight EXCEPT ![h] =
                           [@ EXCEPT !.pc = "log", !.msg = "Error opening uploaded file"]]
                   /\ UNCHANGED <<fs, openFiles, late>>
              ELSE IF st \in {"dir", "ENOTDIR"}
              THEN /\ inflight' = [inflight EXCEPT ![h] =
                           [@ EXCEPT !.pc = "log", !.msg = "Error creating file"]]
                   /\ UNCHANGED <<fs, openFiles, late>>
              ELSE /\ fs' = WithNode(fs, dstPath, FileNode("empty"))
                   /\ openFiles' = openFiles + 2
                   /\ late' = Late("write")
                   /\ inflight' = [inflight EXCEPT ![h] = [@ EXCEPT !.pc = "ucopy"]]
    /\ UNCHANGED <<logs, appended, reqsLeft>>
    /\ HandlerFrame

\* Line 193: io.Copy(dst, file) writes the content, or a part of it.
HandlerUCopy(h) ==
    /\ inflight[h].pc = "ucopy"
    /\ LET r == inflight[h].r
           i == inflight[h].i
           dstPath == DstPath(r, i, windows)
       IN  \E copied \in BOOLEAN :
              /\ fs' = WithNode(fs, dstPath,
                                FileNode(IF copied THEN FormFiles(r.files, windows)[i].data
                                                   ELSE "partial"))
              /\ inflight' = [inflight EXCEPT ![h] =
                      [@ EXCEPT !.pc = "log",
                                !.msg = IF copied THEN "File uploaded" ELSE "Error saving file"]]
    /\ late' = Late("write")
    /\ UNCHANGED <<logs, appended, openFiles, reqsLeft>>
    /\ HandlerFrame

\* a.addLog of the handler (lines 263, 327, 178, 189, 194, 196) and what
\* follows it: the reply 200 of a creation handler (265-267, 329-331); in
\* handleUpload dst.Close() and file.Close() after a copy (199-200), then
\* the next file or the reply 200 (203).
HandlerLog(h) ==
    /\ inflight[h].pc = "log"
    /\ CanLock(logMu)
    /\ LET r == inflight[h].r
           msg == inflight[h].msg
           json == HandlerOf(r) = "json"
           more == ~json /\ inflight[h].i < Len(FormFiles(r.files, windows))
       IN  /\ logs' = addLog(logs, msg)
           /\ appended' = Append(appended, msg)
           /\ openFiles' = openFiles -
                   (IF msg \in {"File uploaded", "Error saving file"} THEN 2 ELSE 0)
           /\ inflight' = [inflight EXCEPT ![h] =
                   IF more THEN [@ EXCEPT !.pc = "ucreate", !.i = @ + 1, !.msg = ""]
                   ELSE [@ EXCEPT !.pc = "done", !.msg = "",
                                  !.resp = IF ~json THEN Response(200, "none", "", <<>>, "", <<>>)
                                           ELSE TextResp(200,
                                                   IF msg = "Folder created"
                                                   THEN "Folder created successfully"
                                                   ELSE "File created successfully")]]
    /\ late' = Late("log")
    /\ UNCHANGED <<fs, reqsLeft>>
    /\ HandlerFrame

\* HandlerStep of handlers that go on only while the application is Running.
HandlerStepWhileRunning(h) ==
    /\ isRunning
    /\ \/ HandlerCheck(h) \/ HandlerCreate(h) \/ HandlerUCreate(h)
       \/ HandlerUCopy(h) \/ HandlerLog(h)

\* A step of handler h after it was accepted: nothing in a handler looks at
\* a.isRunning or at the server.
HandlerStep(h) ==
    \/ HandlerCheck(h) \/ HandlerCreate(h) \/ HandlerUCreate(h)
    \/ HandlerUCopy(h) \/ HandlerLog(h)

\* A server started on Root is listening and no request has come in.
InitRace ==
    /\ isRunning = TRUE
    /\ server = 1
    /\ mu = NoOne
    /\ logMu = NoOne
    /\ logs = addStartupLogs(<<"started">>, 1)
    /\ appended = logs
    /\ numSrv = 1
    /\ srvAddr = [s \in Servers |-> IF s = 1 THEN FormatAddr(Loopback, 8085) ELSE <<>>]
    /\ srvClosed = {}
    /\ listening = {1}
    /\ probe = NoOne
    /\ pc = [t \in Callers |-> "idle"]
    /\ args = [t \in Callers |-> NoArgs]
    /\ result = NoResult
    /\ gpc = [s \in Servers |-> IF s = 1 THEN "serving" ELSE "none"]
    /\ gsrv = [s \in Servers |-> IF s = 1 THEN 1 ELSE NoServer]
    /\ okSinceIdle = 1
    /\ failedNoStart = FALSE
    /\ startsLeft = MaxStarts - 1
    /\ appends = [p \in Callers |-> 0]
    /\ clearsLeft = 0
    /\ snapshot = NoSnapshot
    /\ saveLogs = FALSE /\ logFile = <<>>
    /\ windows \in BOOLEAN
    /\ fs = FsFixture
    /\ req = NoReq
    /\ resp = NoResp
    /\ touched = {}
    /\ reqsLeft = MaxRequests
    /\ openFiles = 0
    /\ size = <<>>
    /\ sizeText = <<>>
    /\ inflight = [h \in Handlers |-> NoHandler]
    /\ late = {}

\* A step of StopServer called by t.
StopStep(t) ==
    StopEnter(t) \/ StopBody(t) \/ StopLogLock(t) \/ StopFinish(t)

NextRace ==
    \/ \E h \in Handlers, r \in RaceRequests : Accept(h, r)
    \/ \E h \in Handlers : HandlerStep(h)
    \/ StopEnter("c1")
    \/ StopBody("c1")
    \/ StopLogLock("c1")
    \/ StopFinish("c1")
    \/ \E g \in Servers : GoServeClosed(g)

SpecRace == InitRace /\ [][NextRace]_vars

(***************************************************************************)
(* Properties.                                                             *)
(***************************************************************************)
\* The step in which caller t's StartServer leaves the checks of lines
\* 701-765, and the step in which t's StopServer returns.
StartChecked(t) == pc[t] = "StartCheck" /\ pc'[t] # "StartCheck"
StopReturns(t) ==
    pc[t] \in {"StopBody", "StopFinishErr", "StopFinishOk"} /\ pc'[t] = "idle"

\* The arguments pass every check of StartServer whatever the environment.
ArgsValid(a) ==
    \A cwdOK \in BOOLEAN : ValidateStart(a.dir, a.ip, a.port, cwdOK) = "OK"

\* C1: a StartServer call that finds the state Running returns the failure
\* AlreadyRunning, whatever its arguments, and leaves the run state, the
\* server handle, the server instances, their listeners and goroutines as
\* they were.
C1_AlreadyRunning ==
    [][\A t \in Callers :
         (StartChecked(t) /\ isRunning) =>
            /\ pc'[t] = "idle"
            /\ result'.op = "start" /\ ~result'.success
            /\ result'.code = "AlreadyRunning"
            /\ isRunning' /\ server' = server
            /\ UNCHANGED <<netVars, goVars>>]_vars

\* A start with invalid arguments was refused as AlreadyRunning while the
\* server kept running.
C1_Witness ==
    /\ isRunning /\ server # NoServer
    /\ result.op = "start" /\ result.code = "AlreadyRunning"
    /\ ~ArgsValid(result.args)

\* C2: of the StartServer calls that contend for an Idle manager at most one
\* returns success: no second call succeeds unless the state was reset to
\* Idle (by StopServer or by a failed accept loop) in between.
C2_SingleSuccess == okSinceIdle <= 1

\* Of two calls with valid arguments one has succeeded and the other was
\* refused; the refused caller is free to call again.
C2_Witness ==
    /\ okSinceIdle = 1 /\ isRunning /\ mu = NoOne
    /\ result.op = "start" /\ ~result.success
    /\ ArgsValid(result.args)

\* C3: StopServer called in state Running leaves the state Idle when it
\* returns, also when closing the listener reports an error.
C3_StopForcesIdle ==
    [][\A t \in Callers : (StopReturns(t) /\ isRunning) => ~isRunning']_vars

\* C4: outside the critical sections of a.mu, a server handle exists exactly
\* when the state is Running.
C4_HandleIffRunning ==
    mu = NoOne => ((server # NoServer) <=> isRunning)

\* C5: at most one server instance has an open listener.
C5_OneListener == Cardinality(listening) <= 1

\* C6: once an accept loop has failed, no listener is created until a
\* StartServer call succeeds (no automatic retry).
C6_NoListenerAfterFailure ==
    [][failedNoStart => listening' \subseteq listening]_vars

\* C7: StopServer called in state Idle returns the failure NotRunning and
\* changes neither the run state, nor the server handle, nor the log buffer,
\* nor any server instance.
C7_StopIdle ==
    [][\A t \in Callers :
         (StopReturns(t) /\ ~isRunning) =>
            /\ result'.op = "stop" /\ ~result'.success
            /\ result'.code = "NotRunning"
            /\ UNCHANGED <<isRunning, server, logs, netVars, goVars>>]_vars

\* StopServer was refused on an Idle manager that had run a server before
\* (so there is a handle and a log that could have been touched).
C7_Witness ==
    /\ ~isRunning /\ server # NoServer /\ logs # <<>>
    /\ result.op = "stop" /\ result.code = "NotRunning"

\* C8: the lifecycle repeats: from Idle a StartServer with valid arguments
\* and a free port succeeds and leaves the state Running; a StartServer in
\* state Running fails with AlreadyRunning; a StopServer in state Running
\* succeeds and leaves the state Idle.
C8_Lifecycle ==
    [][\A t \in Callers :
         /\ (StartChecked(t) /\ ~isRunning /\ ArgsValid(args[t])) =>
                pc'[t] = "StartProbe"
         /\ (pc[t] = "StartFinish" /\ pc'[t] = "idle") =>
                (result'.success /\ isRunning')
         /\ (StartChecked(t) /\ isRunning) => result'.code = "AlreadyRunning"
         /\ (StopReturns(t) /\ isRunning) => (result'.success /\ ~isRunning')]_vars

\* The directory and address of the call are valid; the port is empty, not
\* an integer, or outside [MinPort, MaxPort].
DirAndAddressValid(a) ==
    \A cwdOK \in BOOLEAN :
        ValidateStart(a.dir, a.ip, Port8085, cwdOK) = "OK"
PortInvalid(port) ==
    \/ port = <<>>
    \/ ~Atoi(port).ok
    \/ Atoi(port).val < MinPort
    \/ Atoi(port).val > MaxPort

\* C9: on an Idle server, StartServer with a valid directory and address and
\* a port that is empty, not an integer or outside [1,65535] fails with
\* InvalidPort and the state stays Idle.
C9_InvalidPort ==
    [][\A t \in Callers :
         (/\ StartChecked(t) /\ ~isRunning
          /\ DirAndAddressValid(args[t]) /\ PortInvalid(args[t].port)) =>
            /\ pc'[t] = "idle"
            /\ result'.op = "start" /\ ~result'.success
            /\ ErrClass(result'.code) = "InvalidPort"
            /\ ~isRunning' /\ server' = server
            /\ UNCHANGED <<netVars, goVars>>]_vars

\* A call with the port one above the range was refused on an Idle server.
C9_Witness ==
    /\ ~isRunning
    /\ result.op = "start" /\ ErrClass(result.code) = "InvalidPort"
    /\ DirAndAddressValid(result.args)
    /\ result.args.port = <<"6","5","5","3","6">>

\* The checks in the order the design document gives them; each is
\* evaluated on its own.
OrderedChecks(a, cwdOK) ==
    LET abs == Abs(a.dir, cwdOK)
    IN  << [fails |-> a.dir = EmptyPath, class |-> "EmptyDirectory"],
           [fails |-> ~abs.ok \/ Stat(abs.path) \in {"ENOENT", "EACCES"},
            class |-> "DirectoryNotFound"],
           [fails |-> Stat(abs.path) # "dir", class |-> "NotADirectory"],
           [fails |-> a.ip = <<>> \/ ~ParseIP(a.ip), class |-> "InvalidAddress"],
           [fails |-> PortInvalid(a.port), class |-> "InvalidPort"] >>

\* The class of the earliest failing check, "OK" when none fails.
FirstFailure(a, cwdOK) ==
    LET cs == OrderedChecks(a, cwdOK)
        failing == {i \in 1..Len(cs) : cs[i].fails}
    IN  IF failing = {} THEN "OK"
        ELSE cs[CHOOSE i \in failing : \A j \in failing : i <= j].class

\* C10: on an Idle server StartServer reports the earliest failing check
\* only, in the order empty directory, directory not found, not a directory,
\* invalid address, invalid port; it goes on to the port probe only when
\* every check passes.
C10_FirstFailure ==
    [][\A t \in Callers :
         (StartChecked(t) /\ ~isRunning) =>
            \E cwdOK \in BOOLEAN :
               LET first == FirstFailure(args[t], cwdOK)
               IN  IF first = "OK"
                   THEN pc'[t] = "StartProbe" /\ result' = result
                   ELSE /\ pc'[t] = "idle"
                        /\ ~result'.success
                        /\ ErrClass(result'.code) = first]_vars

\* A call in which the directory, the address and the port were all invalid
\* returned the error of the directory.
C10_Witness ==
    /\ result.op = "start" /\ result.code = "StatFailed"
    /\ ~ParseIP(result.args.ip)
    /\ PortInvalid(result.args.port)

\* C11: when StartServer succeeds, the state is Running at the moment it
\* returns, the result is a success whose message holds the URL
\* http://<address>:<port>/ of the server instance just created, and the
\* return does not wait for the goroutine that runs the accept loop: the
\* call can return wherever that goroutine is, and returning moves it not.
C11_StartSuccess ==
    /\ [](\A t \in Callers : pc[t] = "StartFinish" => ENABLED StartFinish(t))
    /\ [][\A t \in Callers :
            (pc[t] = "StartFinish" /\ pc'[t] = "idle") =>
               /\ result'.op = "start" /\ result'.success
               /\ isRunning' /\ server' # NoServer
               /\ result'.url =
                      <<"h","t","t","p",":","/","/">> \o srvAddr[server'] \o <<"/">>
               /\ LET hp == SplitHostPort(srvAddr[server'])
                  IN  /\ hp.ok /\ hp.host = args[t].ip
                      /\ Atoi(hp.port).val = Atoi(args[t].port).val
               /\ UNCHANGED <<goVars, listening>>]_vars

\* StartServer has returned success with the URL of 127.0.0.1:8085 while
\* the goroutine of the new instance has not yet run a single step.
C11_Witness ==
    /\ result.op = "start" /\ result.success /\ isRunning
    /\ result.url = <<"h","t","t","p",":","/","/">> \o Loopback
                        \o <<":","8","0","8","5","/">>
    /\ server # NoServer /\ gpc[server] = "log" /\ listening = {}
    /\ mu = NoOne

\* The last n elements of a sequence (all of it when it is shorter).
LastN(seq, n) ==
    IF Len(seq) <= n THEN seq ELSE SubSeq(seq, Len(seq) - n + 1, Len(seq))

\* C12: in every reachable state the log buffer holds at most 100 entries:
\* exactly the last min(n, 100) of the n messages appended since the last
\* clear, in the order of the appends, however the appenders interleave.
C12_LogBuffer ==
    /\ Len(logs) <= 100
    /\ Len(logs) = Min(Len(appended), 100)
    /\ \A i \in 1..Len(logs) :
          logs[i] = appended[Len(appended) - Len(logs) + i]

\* More than 100 messages were appended since the last clear, by both
\* appenders, and the oldest were evicted.
C12_Witness ==
    /\ Len(appended) > 100 /\ Len(logs) = 100
    /\ \E i, j \in 1..Len(logs) : logs[i][1] = "c2" /\ logs[j][1] = "c1" /\ i < j
    /\ logs[1] # appended[1]

\* A request that asks for a folder or a file to be created: a POST with a
\* JSON body whose action is createFolder or createFile.
IsCreate(r) ==
    /\ r.method = "POST" /\ r.ctype = "json" /\ r.json.ok
    /\ r.json.action \in {"createFolder", "createFile"}

\* The request is passed to the catch-all handler (ServeMux neither
\* redirects it nor passes it to a lookup handler).
OnCatchAll(r) == Route(r.path) = "file"

\* The name is empty or holds "..", "/" or "\".
NameUnsafe(n) ==
    \/ n = <<>>
    \/ \E i \in 1..Len(n) : n[i] \in {"/", "\\"}
    \/ \E i \in 1..(Len(n) - 1) : n[i] = "." /\ n[i + 1] = "."

\* C13: a CreateFolder or CreateFile request whose name is empty or holds
\* "..", "/" or "\" is answered 400 by the catch-all handler, and creates or
\* changes no filesystem entry, whatever the target directory.
C13_UnsafeName ==
    [][(IsCreate(req') /\ NameUnsafe(req'.json.name)) =>
          /\ fs' = fs
          /\ OnCatchAll(req') => resp'.status = 400]_vars

\* A folder named ".." was asked for in an existing directory and refused.
C13_Witness ==
    /\ IsCreate(req) /\ req.json.action = "createFolder"
    /\ req.json.name = <<".", ".">> /\ req.path = <<"/", "d">>
    /\ resp.status = 400 /\ fs = FsFixture

\* The target directory and the target path of a creation request.
TargetDir(r) == Resolve(Root, r.path, windows)
TargetPath(r) == Join(TargetDir(r), r.json.name, windows)

\* C14 as stated: a CreateFolder or CreateFile request whose target path
\* (target directory joined with name) already exists is answered 409 and
\* leaves the filesystem untouched.
C14_Original ==
    [][(IsCreate(req') /\ OnCatchAll(req') /\ TargetPath(req') \in DOMAIN fs) =>
          (resp'.status = 409 /\ fs' = fs)]_vars

\* C14, amended: a CreateFolder or CreateFile request whose name passes the
\* name check, whose target directory is an existing directory and whose
\* target path already exists is answered 409 and leaves the filesystem
\* untouched.
C14_Conflict ==
    [][(/\ IsCreate(req') /\ OnCatchAll(req')
        /\ ~NameUnsafe(req'.json.name)
        /\ TargetDir(req') \in DOMAIN fs /\ fs[TargetDir(req')].dir
        /\ TargetPath(req') \in DOMAIN fs) =>
          (resp'.status = 409 /\ fs' = fs)]_vars

\* A folder d was asked for in the served directory, which holds d.
C14_Witness ==
    /\ IsCreate(req) /\ req.json.action = "createFolder"
    /\ req.json.name = <<"d">> /\ req.path = <<"/">>
    /\ resp.status = 409 /\ fs = FsFixture

\* A request passed to handleUpload.
IsUpload(r) == OnCatchAll(r) /\ r.method = "POST" /\ r.ctype # "json"

\* The base name of a file name: what follows its last separator, trailing
\* separators aside.
LastComponent(n) ==
    LET parts == SelectSeq(SplitOn(n, Seps(windows)), LAMBDA c : c # <<>>)
    IN  IF parts = <<>> THEN <<>> ELSE parts[Len(parts)]

\* The paths at which two filesystems differ.
Changed(f, g) ==
    {p \in DOMAIN f \cup DOMAIN g :
        p \notin DOMAIN f \/ p \notin DOMAIN g \/ f[p] # g[p]}

\* C15: every file an upload writes is a direct child of the target
\* directory, named by the base name of a file name of the request; the
\* upload creates or writes nothing else.
C15_UploadInTarget ==
    [][IsUpload(req') =>
          \A p \in Changed(fs, fs') \cup {t.path : t \in {x \in touched' : x.op = "write"}} :
             /\ p \in DOMAIN fs' /\ ~fs'[p].dir
             /\ p # <<>> /\ Parent(p) = TargetDir(req')
             /\ \E i \in 1..Len(req'.files) :
                   /\ req'.files[i].filename # <<>>
                   /\ p[Len(p)] = LastComponent(req'.files[i].filename)]_vars

\* A file sent as ../../n into the served directory was written there as n.
C15_Witness ==
    /\ IsUpload(req) /\ req.path = <<"/">>
    /\ req.files = <<[filename |-> <<".",".","/",".",".","/","n">>, data |-> "up1"]>>
    /\ resp.status = 200
    /\ Append(Root, <<"n">>) \in DOMAIN fs
    /\ fs[Append(Root, <<"n">>)] = FileNode("up1")
    /\ Changed(FsFixture, fs) = {Append(Root, <<"n">>)}

\* Path q is p or lies below p.
IsPrefix(p, q) == Len(p) <= Len(q) /\ SubSeq(q, 1, Len(p)) = p

\* C16: the path the catch-all handler resolves the URL path to, and every
\* path it stats, reads, lists or writes, lies in the subtree of the served
\* directory.
C16_InsideRoot ==
    [][OnCatchAll(req') =>
          \A t \in touched' :
             t.op \in {"stat", "read", "list", "write"} => IsPrefix(Root, t.path)]_vars

\* C17: no request overwrites, truncates or replaces an entry that exists:
\* every entry is there afterwards, with the content it had.
C17_NoOverwrite ==
    [][\A p \in DOMAIN fs : p \in DOMAIN fs' /\ fs'[p] = fs[p]]_vars

\* C18: the listing holds every entry of the directory once, every
\* directory before every file and, within each group, the names in
\* ascending byte order; so it is the same for every order in which the
\* entries are read.
C18_ListingOrder ==
    [][resp'.kind = "listing" =>
          LET es == resp'.entries
              dirEntries == Children(fs, resp'.path)
          IN  /\ {es[i] : i \in 1..Len(es)} = dirEntries
              /\ Len(es) = Cardinality(dirEntries)
              /\ \A i, j \in 1..Len(es) :
                    i < j => \/ es[i].dir /\ ~es[j].dir
                             \/ /\ es[i].dir = es[j].dir
                                /\ StrLess(es[i].name, es[j].name)]_vars

\* The listing of /d/: the directories c and e, then the files B and a.
C18_Witness ==
    /\ resp.kind = "listing" /\ req.path = <<"/", "d", "/">>
    /\ resp.entries = << [name |-> <<"c">>, dir |-> TRUE], [name |-> <<"e">>, dir |-> TRUE],
                         [name |-> <<"B">>, dir |-> FALSE], [name |-> <<"a">>, dir |-> FALSE] >>

\* The ID of a lookup request, and the artifact that belongs to it.
LookupId(r) ==
    IF Route(r.path) = "get" THEN TrimPrefix(r.path, GetPrefix)
    ELSE TrimPrefix(r.path, GetJsonPrefix)
Artifact(r) ==
    IF Route(r.path) = "get"
    THEN CwdPath \o <<ApiName, TxtName, LookupId(r) \o TxtExt>>
    ELSE CwdPath \o <<ApiName, JsonName, LookupId(r) \o JsonExt>>

\* C19: a lookup request whose ID holds "..", "/" or "\" is answered 400
\* Invalid ID and reads no file; an empty ID and an ID without artifact get
\* the same 404 response; for every other ID the only file read is the
\* artifact named after the ID in the side directory, and nothing is written.
C19_Lookup ==
    [][Route(req'.path) \in {"get", "getjson"} =>
          LET id == LookupId(req')
          IN  /\ fs' = fs
              /\ (id # <<>> /\ NameUnsafe(id)) =>
                    (resp' = TextResp(400, "Invalid ID") /\ touched' = {})
              /\ id = <<>> => (resp' = NotFound /\ touched' = {})
              /\ (id # <<>> /\ ~NameUnsafe(id)) =>
                    /\ touched' = {Touch("read", Artifact(req'))}
                    /\ Artifact(req') \notin DOMAIN fs => resp' = NotFound
                    /\ resp'.kind = "file" => resp'.path = Artifact(req')]_vars

\* The text artifact of ID 1 was read and sent.
C19_Witness ==
    /\ req.path = GetPrefix \o <<"1">> /\ req.method = "GET"
    /\ resp.status = 200 /\ resp.kind = "file"
    /\ resp.path = CwdPath \o <<ApiName, TxtName, <<"1",".","t","x","t">>>>
    /\ resp.data = "orig"

\* C20: a request on the catch-all path that is not a POST gets exactly the
\* outcome its resolved node decides: 404 when the node is missing, the
\* index.html child of a directory that has one, the generated listing of a
\* directory that has none, the content of a file.
C20_GetOutcome ==
    [][(OnCatchAll(req') /\ req'.method # "POST") =>
          LET node == Resolve(Root, req'.path, windows)
              idx == Append(node, IndexName)
          IN  IF node \notin DOMAIN fs THEN resp' = NotFound
              ELSE IF fs[node].dir /\ idx \in DOMAIN fs
              THEN resp'.status = 200 /\ resp'.kind = "file" /\ resp'.path = idx
              ELSE IF fs[node].dir
              THEN resp'.status = 200 /\ resp'.kind = "listing" /\ resp'.path = node
              ELSE /\ resp'.status = 200 /\ resp'.kind = "file"
                   /\ resp'.path = node /\ resp'.data = fs[node].data]_vars

\* The response bodies of handleFolderCreation, of handleFileCreation and of
\* handleUpload.
FolderTexts ==
    {"Invalid request", "Folder name is required", "Invalid folder name",
     "Invalid target directory", "Folder already exists", "Folder created successfully"}
FileTexts ==
    {"Invalid request", "File name is required", "Invalid file name",
     "Invalid target directory", "File already exists", "File created successfully"}
UploadTexts == {"Failed to parse form", "No files uploaded", "Invalid upload directory", ""}

\* C21: a POST on the catch-all path with a JSON content type is answered by
\* the folder handler when the action is createFolder (whatever it creates is
\* a directory), by the file handler when it is createFile (whatever it
\* creates is a file) and with 400 Invalid action, the filesystem unchanged,
\* for any other action; a multipart POST is answered by the upload handler.
C21_Dispatch ==
    [][(OnCatchAll(req') /\ req'.method = "POST") =>
          /\ (req'.ctype = "json" /\ req'.json.ok) =>
                CASE req'.json.action = "createFolder" ->
                       /\ resp'.text \in FolderTexts
                       /\ \A p \in Changed(fs, fs') : fs'[p].dir
                  [] req'.json.action = "createFile" ->
                       /\ resp'.text \in FileTexts
                       /\ \A p \in Changed(fs, fs') : ~fs'[p].dir
                  [] OTHER -> resp' = TextResp(400, "Invalid action") /\ fs' = fs
          /\ req'.ctype = "multipart" =>
                /\ resp'.text \in UploadTexts
                /\ resp'.status = 200 => resp'.kind = "none"
                /\ \A p \in Changed(fs, fs') : ~fs'[p].dir]_vars

\* An empty file n was asked for in the served directory and created.
C21_Witness ==
    /\ IsCreate(req) /\ req.json.action = "createFile"
    /\ req.json.name = <<"n">> /\ req.path = <<"/">>
    /\ resp = TextResp(200, "File created successfully")
    /\ Changed(FsFixture, fs) = {Append(Root, <<"n">>)}
    /\ fs[Append(Root, <<"n">>)] = FileNode("empty")

\* The files of an upload request as handleUpload sees them, and where the
\* i-th goes.
UploadFiles(r) == FormFiles(r.files, windows)
Destination(r, i) == Join(TargetDir(r), Base(UploadFiles(r)[i].filename, windows), windows)

\* C22 as stated: an upload whose multipart form parsed is answered 200.
C22_Original ==
    [][(IsUpload(req') /\ req'.ctype = "multipart") => resp'.status = 200]_vars

\* C22, amended: an upload whose form parsed, which carries at least one
\* file and whose target is an existing directory is answered 200 whatever
\* fails for single files: every file is handled and logged, in order,
\* failed or not, and a file reported as uploaded is there afterwards.
C22_BestEffort ==
    [][(/\ IsUpload(req') /\ req'.ctype = "multipart"
        /\ UploadFiles(req') # <<>>
        /\ StatFS(fs, TargetDir(req'), windows) = "dir") =>
          LET n == Len(UploadFiles(req'))
              msgs == LastN(appended', n)
          IN  /\ resp'.status = 200
              /\ Len(appended') = Len(appended) + n
              /\ \A i \in 1..n :
                    /\ msgs[i] \in {"File uploaded", "Error opening uploaded file",
                                    "Error creating file", "Error saving file"}
                    /\ msgs[i] = "File uploaded" =>
                          /\ Destination(req', i) \in DOMAIN fs'
                          /\ ~fs'[Destination(req', i)].dir
              /\ \A p \in DOMAIN fs : p \in DOMAIN fs']_vars

\* Of two files sent to the served directory the first, named like the
\* directory d, could not be created; the second was written.
C22_Witness ==
    /\ IsUpload(req) /\ req.path = <<"/">>
    /\ Len(req.files) = 2 /\ req.files[1].filename = <<"d">>
    /\ resp.status = 200
    /\ LastN(appended, 2) = <<"Error creating file", "File uploaded">>
    /\ fs[Append(Root, <<"n">>)] = FileNode("up2")
    /\ fs[Append(Root, <<"d">>)] = DirNode

\* C23: a POST on the catch-all path whose target, the served directory
\* joined with the URL path, is not an existing directory is answered 400
\* and changes nothing; the only path such a request looks at is the target,
\* and every mutation handler that looks at the filesystem looks at the
\* target first.
C23_TargetChecked ==
    [][(OnCatchAll(req') /\ req'.method = "POST") =>
          /\ touched' # {} => Touch("stat", TargetDir(req')) \in touched'
          /\ StatFS(fs, TargetDir(req'), windows) # "dir" =>
                /\ resp'.status = 400
                /\ fs' = fs
                /\ touched' \subseteq {Touch("stat", TargetDir(req'))}]_vars

\* A file was sent to /a, which is a file.
C23_Witness ==
    /\ IsUpload(req) /\ req.path = <<"/", "a">>
    /\ req.files = <<[filename |-> <<"n">>, data |-> "up1"]>>
    /\ resp = TextResp(400, "Invalid upload directory")
    /\ fs = FsFixture

\* C24: a creation request answered 200 has created exactly one entry, the
\* target path, which did not exist, lies directly in the target directory
\* and is named as asked (an empty directory or an empty file), and has
\* appended exactly one log entry; one answered 400 or 409 has created
\* nothing and appended nothing.
C24_CreateEffect ==
    [][(IsCreate(req') /\ OnCatchAll(req')) =>
          /\ resp'.status \in {200, 400, 409}
          /\ resp'.status = 200 =>
                /\ Changed(fs, fs') = {TargetPath(req')}
                /\ TargetPath(req') \notin DOMAIN fs
                /\ Parent(TargetPath(req')) = TargetDir(req')
                /\ TargetPath(req')[Len(TargetPath(req'))] = req'.json.name
                /\ fs'[TargetPath(req')] =
                      IF req'.json.action = "createFolder" THEN DirNode
                      ELSE FileNode("empty")
                /\ Children(fs', TargetPath(req')) = {}
                /\ Len(appended') = Len(appended) + 1
          /\ resp'.status \in {400, 409} =>
                (fs' = fs /\ appended' = appended)]_vars

\* A folder n was asked for in /d and created.
C24_Witness ==
    /\ IsCreate(req) /\ req.json.action = "createFolder"
    /\ req.json.name = <<"n">> /\ req.path = <<"/", "d">>
    /\ resp.status = 200
    /\ Changed(FsFixture, fs) = {Root \o << <<"d">>, <<"n">> >>}
    /\ fs[Root \o << <<"d">>, <<"n">> >>] = DirNode
    /\ Len(appended) = NumStartupLogs + 2

\* Caller t's call of the log operation call returns.
LogReturns(t, call) == pc[t] = call /\ pc'[t] = "idle"

\* C25: GetLogs returns the entries of the buffer as they are at the call,
\* in the order of the appends, and leaves the buffer as it is; no other
\* step changes a slice already returned; ClearLogs leaves the buffer empty
\* and changes neither the run state nor the server handle.
C25_LogAccessors ==
    [][/\ \A t \in Callers :
            /\ LogReturns(t, "GetLogs") =>
                  /\ snapshot'.taken
                  /\ snapshot'.logs = logs
                  /\ snapshot'.logs = LastN(appended, MaxLogs)
                  /\ logs' = logs
            /\ LogReturns(t, "ClearLogs") =>
                  /\ logs' = <<>>
                  /\ isRunning' = isRunning
                  /\ server' = server
       /\ (\A t \in Callers : ~LogReturns(t, "GetLogs")) => snapshot' = snapshot]_vars

\* GetLogs returned a slice with entries, and a later ClearLogs, made while
\* a server runs, emptied the buffer.
C25_Witness ==
    /\ snapshot.taken
    /\ Len(snapshot.logs) > NumStartupLogs
    /\ logs = <<>>
    /\ clearsLeft < MaxClears
    /\ isRunning /\ server # NoServer

\* C26: a call of the control-plane operation GetRunState answers true when
\* the state is Running and false when it is Idle, and changes nothing.
C26_GetRunState ==
    [][(result'.op = "GetRunState" /\ result.op # "GetRunState") =>
          /\ result'.success
          /\ result'.code = IF isRunning THEN "true" ELSE "false"
          /\ isRunning' = isRunning /\ server' = server]_vars

\* The goroutine of instance g reads a.server and calls ListenAndServe.
GoReadsServer(g) == gpc[g] = "listen" /\ gpc'[g] # "listen"

\* C27: the goroutine of an instance reads the server handle while no
\* caller is inside a critical section of the state mutex, and the server
\* whose accept loop it runs is the one created by the StartServer call that
\* spawned it.
C27_OwnHandle ==
    [][\A g \in Servers :
          GoReadsServer(g) =>
             /\ mu = NoOne
             /\ gpc'[g] = "serving" => gsrv'[g] = g]_vars

\* C28: the failure handler of an instance's goroutine leaves the state
\* Running when a later instance, created by a later successful
\* StartServer, is the current one.
C28_ResetOwnInstance ==
    [][\A g \in Servers :
          (gpc[g] = "failed" /\ gpc'[g] = "failLog" /\ server # g /\ isRunning)
             => isRunning']_vars

\* C29: no caller holds the state mutex and the log mutex at once.
C29_NoNesting == \A t \in Callers : ~(mu = t /\ logMu = t)

\* A step of caller t that acquires or releases a mutex, or that follows
\* the argument checks of StartServer.
LockStep(t) ==
    \/ StartProbeClose(t)
    \/ StartCreate(t) \/ StartLogLock(t) \/ StartFinish(t)
    \/ StopBody(t) \/ StopLogLock(t) \/ StopFinish(t)
    \/ AddLogCall(t) \/ AddLogWrite(t) \/ ClearLogs(t) \/ GetLogs(t)

\* C30: no interleaving of StartServer, StopServer, GetLogs, ClearLogs, the
\* handlers' log appends and the goroutines deadlocks.  A caller that has
\* returned holds no mutex; a caller in the argument checks of StartServer
\* holds the state mutex only; any other caller inside a call can take its
\* next step, or waits for the log mutex, whose holder can take its next
\* step; and the state mutex is never acquired by a caller that holds the
\* log mutex.
C30_NoDeadlock ==
    /\ [](\A t \in Callers :
            /\ pc[t] = "idle" => (mu # t /\ logMu # t)
            /\ pc[t] \in {"StartCheck", "StartProbe"} => (mu = t /\ logMu # t)
            /\ pc[t] \notin {"idle", "StartCheck", "StartProbe"} =>
                  \/ ENABLED LockStep(t)
                  \/ (logMu \in Callers \ {t} /\ ENABLED LockStep(logMu)))
    /\ [][\A t \in Callers : (mu' = t /\ mu # t) => logMu # t]_vars

\* StopServer holds the state mutex and waits for the log mutex, which a
\* ClearLogs call holds, while the failure handler of the goroutine waits
\* for the state mutex.
C30_Witness ==
    /\ pc["c1"] = "StopLogOk" /\ mu = "c1"
    /\ pc["c2"] = "ClearLogs" /\ logMu = "c2"
    /\ \E g \in Servers : gpc[g] = "failed"

\* The step is the handling of a request.
Handled == reqsLeft' = reqsLeft - 1

\* C35: a request answered 500 has appended an entry to the log buffer.
C35_FaultLogged ==
    [][(Handled /\ resp'.status = 500) => Len(appended') > Len(appended)]_vars

\* C36: a request whose method is not POST leaves the filesystem as it is
\* and neither creates nor writes a path, whatever its path and body; so
\* does a lookup request of any method.
C36_OnlyPostMutates ==
    [][(Handled /\ (req'.method # "POST" \/ Route(req'.path) \in {"get", "getjson"})) =>
          /\ fs' = fs
          /\ \A t \in touched' : t.op \notin {"create", "write"}
          /\ openFiles' = openFiles]_vars

\* PUT with the body of a file creation was sent to /d: the answer is the
\* listing of the directory, nothing was created.
C36_Witness ==
    /\ req.method = "PUT" /\ req.path = <<"/", "d">> /\ req.json.action = "createFile"
    /\ resp.status = 200 /\ resp.kind = "listing"
    /\ fs = FsFixture

\* The outcomes the handler of the pattern "/" can have for request r, when
\* os.ReadDir hands over the entries in the order given.
CatchAllOutcomes(f, r, win, order) ==
    IF r.method # "POST"
    THEN {FileGet(f, r.path, win, order)}
    ELSE IF r.ctype = "json" THEN {JSONRequest(f, r, win)}
    ELSE {Upload(f, r, win, faults) :
             faults \in [1..Len(FormFiles(r.files, win)) -> UploadFaults]}

\* The outcome of the lookup handler of pattern prefix for request r.
LookupOutcome(f, r, win) ==
    IF HasPrefix(r.path, GetJsonPrefix)
    THEN Lookup(f, r.path, GetJsonPrefix, JsonName, JsonExt, win)
    ELSE Lookup(f, r.path, GetPrefix, TxtName, TxtExt, win)

UnderLookupPrefix(p) == HasPrefix(p, GetPrefix) \/ HasPrefix(p, GetJsonPrefix)

\* Outcome o has response, filesystem and accessed paths e.
SameEffect(o, e) == e.resp = o.resp /\ e.fs = o.fs /\ e.touched = o.touched

\* The effect of the step.
Effect == [resp |-> resp', fs |-> fs', touched |-> touched']

\* C37 as stated: a request whose path begins with a lookup prefix is
\* handled by the lookup handler of the prefix, every other request by the
\* handler of "/".
C37_Original ==
    [][Handled =>
          \E r \in {req'}, e \in {Effect} :
             IF UnderLookupPrefix(r.path)
             THEN SameEffect(LookupOutcome(fs, r, windows), e)
             ELSE \E o \in CatchAllOutcomes(fs, r, windows, e.resp.entries) :
                     SameEffect(o, e)]_vars

\* C37: a request whose path is clean and begins with a lookup prefix is
\* handled by the lookup handler of the prefix, for every method and also
\* when the served directory has an entry at the path; a path that is not
\* clean, or that is a lookup prefix without its final slash, is answered
\* by ServeMux with a redirect to the clean path; every other request is
\* handled by the handler of "/".
C37_Precedence ==
    [][Handled =>
          \E r \in {req'}, e \in {Effect} :
             IF MuxRedirectTo(r.path) # <<>>
             THEN SameEffect(Outcome(RedirectResp(MuxRedirectTo(r.path)), fs, {}, <<>>), e)
             ELSE IF UnderLookupPrefix(r.path)
             THEN SameEffect(LookupOutcome(fs, r, windows), e)
             ELSE \E o \in CatchAllOutcomes(fs, r, windows, e.resp.entries) :
                     SameEffect(o, e)]_vars

\* /api/get/1 was asked for with the body of a file creation; the served
\* directory has a file api/get/1; the answer is the text artifact of ID 1.
C37_Witness ==
    /\ req.method = "POST" /\ req.path = GetPrefix \o <<"1">>
    /\ Root \o <<ApiName, <<"g","e","t">>, <<"1">>>> \in DOMAIN fs
    /\ resp.kind = "file"
    /\ resp.path = CwdPath \o <<ApiName, TxtName, <<"1">> \o TxtExt>>

\* C39: every file a handler opens is closed when the handler returns.
C39_HandlesClosed == openFiles = 0

\* C40: the address StartServer binds, built from an address and a port
\* that passed the checks, is a well-formed host:port, so that the probe
\* can only fail because the port is not free.
C40_BindAddress ==
    \A t \in Callers : pc[t] = "StartProbe" => ListenAddrOK(StartAddr(args[t]))

\* x < y for numbers to the base 1024 without leading zeros.
RECURSIVE DigitsLess(_, _)
DigitsLess(x, y) ==
    IF Len(x) # Len(y) THEN Len(x) < Len(y)
    ELSE IF x = <<>> THEN FALSE
    ELSE IF Head(x) # Head(y) THEN Head(x) < Head(y)
    ELSE DigitsLess(Tail(x), Tail(y))

\* 1024^k and 2^63.
PowUnit(k) == <<1>> \o [i \in 1..k |-> 0]
TwoTo63 == <<8>> \o [i \in 1..(Int64Digits - 1) |-> 0]

\* C38: a size below 1024 is rendered as the number and " B".  Any other
\* size n is divided by 1024^(k+1) and given the k-th letter of KMGTPE,
\* where 1024^(k+1) <= n < 1024^(k+2); k is one of 0..5 and the divisor
\* is below 2^63.
C38_FormatSize ==
    sizeText # <<>> =>
       IF DigitsLess(size, PowUnit(1))
       THEN sizeText.num = size /\ sizeText.div = PowUnit(0) /\ sizeText.suffix = " B"
       ELSE \E k \in 0..5 :
               /\ ~DigitsLess(size, PowUnit(k + 1))
               /\ DigitsLess(size, PowUnit(k + 2))
               /\ sizeText.num = size
               /\ sizeText.div = PowUnit(k + 1)
               /\ DigitsLess(sizeText.div, TwoTo63)
               /\ sizeText.suffix = <<"K", "M", "G", "T", "P", "E">>[k + 1] \o "B"

\* 2^63 - 1 was rendered: divided by 1024^6, in EB.
C38_Witness ==
    /\ size = <<7>> \o [i \in 1..(Int64Digits - 1) |-> Unit - 1]
    /\ sizeText # <<>>
    /\ sizeText.div = PowUnit(6) /\ sizeText.suffix = "EB"

\* A step of caller t inside StartServer that ends the call with a failure.
StartFails(t) ==
    /\ pc[t] \in {"StartCheck", "StartProbe"}
    /\ pc'[t] = "idle"

\* C33: a StartServer call that fails (server already running, an invalid
\* argument, or a failed port probe) has no partial effect: the run state,
\* the instance handle and the log are as before, no serving goroutine was
\* started, no instance was created and no socket is left bound.  On the
\* success path the probe socket is released before the instance and its
\* listener are created.
C33_NoPartialEffect ==
    /\ [][\A t \in Callers :
            StartFails(t) =>
               /\ ~result'.success /\ result'.op = "start"
               /\ isRunning' = isRunning /\ server' = server /\ logs' = logs
               /\ gpc' = gpc /\ gsrv' = gsrv
               /\ numSrv' = numSrv /\ listening' = listening
               /\ probe' = NoOne]_vars
    /\ [](\A t \in Callers :
            pc[t] \in {"StartCreate", "StartLog", "StartFinish"} => probe = NoOne)

\* A StartServer on a port that could not be bound has returned with the
\* application still Idle, without a handle, a log line or a listener.
C33_Witness ==
    /\ result.op = "start" /\ result.code = "PortUnavailable"
    /\ \A t \in Callers : pc[t] = "idle"
    /\ ~isRunning /\ server = NoServer /\ logs = <<>>
    /\ listening = {} /\ probe = NoOne /\ numSrv = 0

\* C31: persisting the log to log/log.txt is aside of the in-memory append:
\* while a call of addLog is busy with the file, its entry is already the
\* last one of the buffer and the log mutex is free, so that no other caller
\* of addLog, GetLogs or ClearLogs waits for the file.
C31_PersistenceAside ==
    \A p \in LogAppenders :
       pc[p] = "addLogWrite" =>
          /\ logs # <<>>
          /\ logs[Len(logs)] = LogMessage(p, appends[p])
          /\ CanLock(logMu)

\* Handler h handles a creation request.
Creates(h) ==
    /\ HandlerOf(inflight[h].r) = "json"
    /\ inflight[h].r.json.action \in {"createFolder", "createFile"}

\* C32: the existence check and the creation of CreateFile and CreateFolder
\* are atomic with respect to concurrent mutation requests: of two
\* creation requests for the same path, in flight together, at most one is
\* answered 200, and the step of CreateFile that creates never empties a
\* file that holds uploaded content.
C32_AtomicCreate ==
    /\ [](\A g, h \in Handlers :
            (/\ g # h
             /\ Creates(g) /\ Creates(h)
             /\ NewPath(inflight[g].r, windows) = NewPath(inflight[h].r, windows)
             /\ inflight[g].pc = "done" /\ inflight[h].pc = "done")
            => ~(inflight[g].resp.status = 200 /\ inflight[h].resp.status = 200))
    /\ [][\A h \in Handlers :
            (inflight[h].pc = "create" /\ inflight'[h].pc # "create") =>
               \A p \in DOMAIN fs :
                  (~fs[p].dir /\ fs[p].data \in {"up1", "partial"}) => fs'[p] = fs[p]]_vars

\* C34: StopServer is not graceful.  Every step of a StopServer call can be
\* taken whatever the handlers are doing and leaves the handlers and the
\* files alone; a handler that has come to the call that creates its file
\* or folder can make that call in every run state, Idle included.
C34_StopNotGraceful ==
    /\ [](\A t \in Callers :
            /\ pc[t] = "StopBody" => ENABLED StopBody(t)
            /\ pc[t] \in {"StopLogErr", "StopLogOk"} => ENABLED StopLogLock(t)
            /\ pc[t] \in {"StopFinishErr", "StopFinishOk"} => ENABLED StopFinish(t))
    /\ [][(\E t \in Callers : pc'[t] # pc[t]) =>
             (inflight' = inflight /\ fs' = fs /\ late' = late)]_vars
    /\ [](\A h \in Handlers :
            inflight[h].pc \in {"create", "ucreate"} => ENABLED HandlerStep(h))

\* StopServer has returned and the state is Idle; a handler accepted before
\* the listener was closed has since written its file, logged it and
\* answered 200.
C34_Witness ==
    /\ ~isRunning /\ result.op = "stop" /\ result.code = "Stopped"
    /\ \A t \in Callers : pc[t] = "idle"
    /\ late = {"write", "log"}
    /\ \E h \in Handlers : inflight[h].pc = "done" /\ inflight[h].resp.status = 200

====
